---- MODULE Spec2Model ----
(***************************************************************************)
(* Snowball: tiles of an image collection, dragged and resized on a        *)
(* canvas, with the layout kept in the browser's local storage.             *)
(*                                                                         *)
(* The model follows the modules of the repository:                        *)
(*   StorageManager  (scripts/core/EventBus.js, second class)              *)
(*   StateManager    (scripts/core/StateManager.js)                        *)
(*   ImageManager    (scripts/managers/ImageManager.js)                    *)
(*   DragHandler     (scripts/interactions/DragHandler.js)                 *)
(*   ResizeHandler   (scripts/interactions/ResizeHandler.js)               *)
(*   ImageContainer  (unnamed/part_000)                                    *)
(*                                                                         *)
(* Pixel lengths that the code computes with a division (the resize        *)
(* handler's aspect-ratio arithmetic) are exact rationals <<n, d>>, d > 0, *)
(* in lowest terms.  Positions and the sizes the image manager keeps are   *)
(* the integers the code obtains through parseInt and img.width.           *)
(***************************************************************************)
EXTENDS Integers, Sequences, FiniteSets, TLC

(***************************************************************************)
(* Bounds of the model.                                                    *)
(***************************************************************************)
\* The drags and resizes a user begins during one life of the page.
MaxGestures == 2

(***************************************************************************)
(* Exact rational arithmetic.                                              *)
(***************************************************************************)
RECURSIVE Gcd(_, _)
Gcd(a, b) == IF b = 0 THEN a ELSE Gcd(b, a % b)

Abs(n) == IF n < 0 THEN -n ELSE n

\* The rational n/d (d # 0) in lowest terms with a positive denominator.
Rat(n, d) ==
    LET s == IF d < 0 THEN -1 ELSE 1
        g == Gcd(Abs(n), Abs(d))
    IN  <<(s * n) \div g, (s * d) \div g>>

R(n) == <<n, 1>>
RAdd(a, b) == Rat(a[1] * b[2] + b[1] * a[2], a[2] * b[2])
RSub(a, b) == Rat(a[1] * b[2] - b[1] * a[2], a[2] * b[2])
RMul(a, b) == Rat(a[1] * b[1], a[2] * b[2])
\* a / b for b # 0
RDiv(a, b) == Rat(a[1] * b[2], a[2] * b[1])
RLt(a, b) == a[1] * b[2] < b[1] * a[2]
RLe(a, b) == a[1] * b[2] <= b[1] * a[2]
RMax(a, b) == IF RLt(a, b) THEN b ELSE a
RMin(a, b) == IF RLt(b, a) THEN b ELSE a
\* Math.floor
RFloor(a) == a[1] \div a[2]
\* Math.round: the nearest integer, halves upwards
RRound(a) == (2 * a[1] + a[2]) \div (2 * a[2])
\* parseInt of the text of a number: the digits before the decimal point
ParseInt(a) == IF a[1] >= 0 THEN a[1] \div a[2] ELSE -((-a[1]) \div a[2])

Max(a, b) == IF a < b THEN b ELSE a

(***************************************************************************)
(* The image metadata document and the program's configuration.            *)
(***************************************************************************)
\* image_widths_heights.json: [filename, [width, height]] pairs
Metadata == << <<"a", <<200, 100>> >>, <<"b", <<200, 100>> >>, <<"c", <<820, 20>> >> >>
Filenames == {Metadata[i][1] : i \in 1..Len(Metadata)}

\* the width of #container
ContainerWidth == 400

stateExpiryDays == 30
minSpacing == 20
boundaryPadding == 10
minSize == 50
maxSize == 2000
goalPixels == 150000

imageStatesKey == "imageStates"
themeKey == "theme"

(***************************************************************************)
(* JavaScript values.  An array of numbers is a sequence; a number that is *)
(* not finite (NaN, an infinity, or a null read back from JSON) is         *)
(* NonFinite.  An object is a record and a missing property is a missing   *)
(* field; null is NullValue.  A value handed to or returned by the storage *)
(* manager carries its typeof.                                             *)
(***************************************************************************)
NonFinite == 0 - 1000000
IsFinite(n) == n # NonFinite

NullValue == [isNull |-> TRUE]
Obj(m) == [ty |-> "object", m |-> m]
Str(s) == [ty |-> "string", s |-> s]
Num(n) == [ty |-> "number", n |-> n]
Bool(v) == [ty |-> "boolean", v |-> v]
EmptyMap == << >>

\* the object m with property k set to v
PutKey(m, k, v) == [x \in DOMAIN m \cup {k} |-> IF x = k THEN v ELSE m[x]]
\* the object m after `delete m[k]` for every k of ks
DeleteKeys(m, ks) == [x \in DOMAIN m \ ks |-> m[x]]

(***************************************************************************)
(* JSON texts.  A text is [raw |-> s] for a text s that JSON.parse rejects, *)
(* or the text of a JSON value: [num |-> <<negative, digits>>] a number in *)
(* decimal digits, [lit |-> "null"], [arr |-> texts] an array,             *)
(* [obj |-> key -> text] an object, [str |-> s] a string in quotes.        *)
(***************************************************************************)
\* the decimal digits of n >= 0, most significant first
RECURSIVE Digits(_)
Digits(n) == IF n < 10 THEN <<n>> ELSE Append(Digits(n \div 10), n % 10)

\* the number that a sequence of decimal digits writes
RECURSIVE DigitsValue(_)
DigitsValue(ds) ==
    IF Len(ds) = 0 THEN 0 ELSE 10 * DigitsValue(SubSeq(ds, 1, Len(ds) - 1)) + ds[Len(ds)]

\* JSON.stringify of a number: NaN and the infinities are written as null
StringifyNumber(n) ==
    IF IsFinite(n) THEN [num |-> <<n < 0, Digits(Abs(n))>>] ELSE [lit |-> "null"]

\* JSON.parse of the text of a number or of null: null is no number
ParseNumber(text) ==
    IF "num" \in DOMAIN text
    THEN (IF text.num[1] THEN -1 ELSE 1) * DigitsValue(text.num[2])
    ELSE NonFinite

\* JSON.stringify of a placement record: position and size are arrays of
\* numbers, timestamp a number; null is written as null
StringifyRecord(state) ==
    IF state = NullValue THEN [lit |-> "null"]
    ELSE [obj |-> [k \in DOMAIN state |->
                     IF k = "timestamp" THEN StringifyNumber(state[k])
                     ELSE [arr |-> [i \in 1..Len(state[k]) |-> StringifyNumber(state[k][i])]]]]

ParseRecord(text) ==
    IF "obj" \notin DOMAIN text THEN NullValue
    ELSE [k \in DOMAIN text.obj |->
            IF k = "timestamp" THEN ParseNumber(text.obj[k])
            ELSE [i \in 1..Len(text.obj[k].arr) |-> ParseNumber(text.obj[k].arr[i])]]

\* JSON.stringify(value) for the values the state manager stores
JsonStringify(value) ==
    IF value.ty = "object"
    THEN [obj |-> [f \in DOMAIN value.m |-> StringifyRecord(value.m[f])]]
    ELSE IF value.ty = "number" THEN StringifyNumber(value.n)
    ELSE IF value.ty = "boolean" THEN [lit |-> IF value.v THEN "true" ELSE "false"]
    ELSE [lit |-> "null"]

\* JSON.parse(text) of a text that is JSON
JsonParse(text) ==
    IF "obj" \in DOMAIN text
    THEN Obj([f \in DOMAIN text.obj |-> ParseRecord(text.obj[f])])
    ELSE IF "num" \in DOMAIN text THEN Num(ParseNumber(text))
    ELSE IF "str" \in DOMAIN text THEN Str(text.str)
    ELSE IF text.lit \in {"true", "false"} THEN Bool(text.lit = "true")
    ELSE [ty |-> "null"]

\* the text that a string is when it is stored as it is: "7" is the text of
\* a number, the other strings of the model are no JSON
TextOf(string) == IF string = "7" THEN StringifyNumber(7) ELSE [raw |-> string]

\* typeof value === 'string' ? value : JSON.stringify(value)
serializedValue(value) ==
    IF value.ty = "string" THEN TextOf(value.s) ELSE JsonStringify(value)

(***************************************************************************)
(* StorageManager over the browser's localStorage.                         *)
(*                                                                         *)
(* browser.localStorage maps each key that is present to its item, a text. *)
(* browser.usable says whether localStorage accepts the probe write.  The  *)
(* quota: the item under imageStates may hold at most browser.room         *)
(* records, the rest of the origin's quota being taken by other entries;   *)
(* browser.oldEntries of them carry a timestamp older than 30 days and     *)
(* each frees the room of one record when removed.  browser.denied: since  *)
(* the probe, every access to localStorage throws an error that is no      *)
(* QuotaExceededError.                                                     *)
(***************************************************************************)
checkAvailability(b) == b.usable

\* what a call that throws returns
Thrown == [ty |-> "thrown"]

\* get without its outer catch
StorageGetUncaught(b, sm, key, defaultValue) ==
    IF sm.isAvailable
    THEN IF b.denied THEN Thrown
         ELSE IF key \notin DOMAIN b.localStorage THEN defaultValue
         ELSE LET item == b.localStorage[key]
              IN  IF "raw" \in DOMAIN item THEN Str(item.raw) ELSE JsonParse(item)
    ELSE IF key \in DOMAIN sm.fallbackStorage THEN sm.fallbackStorage[key] ELSE defaultValue

\* StorageManager.get(key, defaultValue)
StorageGet(b, sm, key, defaultValue) ==
    IF sm.isAvailable
    THEN IF b.denied \/ key \notin DOMAIN b.localStorage THEN defaultValue
         ELSE LET item == b.localStorage[key]
              IN  IF "raw" \in DOMAIN item THEN Str(item.raw) ELSE JsonParse(item)
    ELSE IF key \in DOMAIN sm.fallbackStorage THEN sm.fallbackStorage[key] ELSE defaultValue

\* the records in the item under key
RecordsUnder(b, key) ==
    IF key \in DOMAIN b.localStorage /\ "obj" \in DOMAIN b.localStorage[key]
    THEN Cardinality(DOMAIN b.localStorage[key].obj)
    ELSE 0

\* localStorage.setItem(key, text of value) throws QuotaExceededError: the new
\* item is larger than the one it replaces and than the room there is
QuotaExceeded(b, key, value) ==
    /\ value.ty = "object"
    /\ Cardinality(DOMAIN value.m) > b.room
    /\ Cardinality(DOMAIN value.m) > RecordsUnder(b, key)

RECURSIVE StorageSet(_, _, _, _)

\* handleQuotaExceeded that writes once more where its retry failed
handleQuotaExceededAgain(b, sm, key, value) ==
    LET removedCount == b.oldEntries
        cleaned == [b EXCEPT !.room = b.room + b.oldEntries, !.oldEntries = 0]
        retry == StorageSet(cleaned, sm, key, value)
    IN  IF removedCount > 0
        THEN [b |-> retry.b, sm |-> retry.sm,
              writes |-> retry.writes + (IF retry.ok THEN 0 ELSE 1)]
        ELSE [b |-> cleaned, sm |-> sm, writes |-> 0]

\* handleQuotaExceeded(key, value): remove the entries with an old timestamp,
\* then set(key, value) again if any was removed; writes is the number of
\* calls of localStorage.setItem
handleQuotaExceeded(b, sm, key, value) ==
    LET removedCount == b.oldEntries
        cleaned == [b EXCEPT !.room = b.room + b.oldEntries, !.oldEntries = 0]
        retry == StorageSet(cleaned, sm, key, value)
    IN  IF removedCount > 0
        THEN [b |-> retry.b, sm |-> retry.sm, writes |-> retry.writes]
        ELSE [b |-> cleaned, sm |-> sm, writes |-> 0]

\* StorageManager.set(key, value): the browser and the manager afterwards,
\* the value returned and the number of calls of localStorage.setItem
StorageSet(b, sm, key, value) ==
    IF sm.isAvailable /\ ~b.denied /\ value.ty # "circular"
    THEN IF QuotaExceeded(b, key, value)
         THEN LET cleanup == handleQuotaExceeded(b, sm, key, value)
              IN  [b |-> cleanup.b, sm |-> cleanup.sm, ok |-> FALSE,
                   writes |-> cleanup.writes + 1]
         ELSE [b  |-> [b EXCEPT !.localStorage = PutKey(@, key, serializedValue(value))],
               sm |-> sm, ok |-> TRUE, writes |-> 1]
    ELSE [b |-> b, sm |-> [sm EXCEPT !.fallbackStorage = PutKey(@, key, value)], ok |-> TRUE,
          writes |-> IF sm.isAvailable /\ value.ty # "circular" THEN 1 ELSE 0]

\* StorageManager.remove(key)
StorageRemove(b, sm, key) ==
    IF sm.isAvailable /\ b.denied THEN [b |-> b, sm |-> sm, ok |-> FALSE]
    ELSE [b  |-> IF sm.isAvailable THEN [b EXCEPT !.localStorage = DeleteKeys(@, {key})]
                 ELSE b,
          sm |-> [sm EXCEPT !.fallbackStorage = DeleteKeys(@, {key})],
          ok |-> TRUE]

\* StorageManager.clear(); the old entries go with the rest
StorageClear(b, sm) ==
    IF sm.isAvailable /\ b.denied THEN [b |-> b, sm |-> sm, ok |-> FALSE]
    ELSE [b  |-> IF sm.isAvailable
                 THEN [b EXCEPT !.localStorage = EmptyMap,
                                !.room = b.room + b.oldEntries, !.oldEntries = 0]
                 ELSE b,
          sm |-> [sm EXCEPT !.fallbackStorage = EmptyMap],
          ok |-> TRUE]

\* StorageManager.has(key)
StorageHas(b, sm, key) ==
    IF sm.isAvailable THEN ~b.denied /\ key \in DOMAIN b.localStorage
    ELSE key \in DOMAIN sm.fallbackStorage

\* StorageManager.keys(), as a set; the keys of the model are those of the
\* entries that the program wrote
StorageKeys(b, sm) ==
    IF sm.isAvailable THEN (IF b.denied THEN {} ELSE DOMAIN b.localStorage)
    ELSE DOMAIN sm.fallbackStorage

\* new StorageManager()
NewStorageManager(b) == [isAvailable |-> checkAvailability(b), fallbackStorage |-> EmptyMap]

(***************************************************************************)
(* StateManager.  state.images is an object: filename -> record.           *)
(***************************************************************************)
\* `!x` of JavaScript for the values a timestamp takes: missing or 0
Truthy(state, field) == field \in DOMAIN state /\ state[field] # 0

\* validateImageState without its test of the dimensions' sign
validateImageStateAnySign(state) ==
    /\ "isNull" \notin DOMAIN state
    /\ "position" \in DOMAIN state
    /\ Len(state.position) = 2
    /\ IsFinite(state.position[1]) /\ IsFinite(state.position[2])
    /\ "size" \in DOMAIN state
    /\ Len(state.size) = 2
    /\ IsFinite(state.size[1]) /\ IsFinite(state.size[2])

\* validateImageState(state)
validateImageState(state) ==
    /\ "isNull" \notin DOMAIN state
    /\ "position" \in DOMAIN state
    /\ Len(state.position) = 2
    /\ IsFinite(state.position[1]) /\ IsFinite(state.position[2])
    /\ "size" \in DOMAIN state
    /\ Len(state.size) = 2
    /\ IsFinite(state.size[1]) /\ IsFinite(state.size[2])
    /\ ~(state.size[1] <= 0 \/ state.size[2] <= 0)

\* validateImageStates that copies every record without validating it
validateImageStatesKeepAll(imageStates) ==
    IF imageStates.ty # "object" THEN EmptyMap ELSE imageStates.m

\* validateImageStates(imageStates)
validateImageStates(imageStates) ==
    IF imageStates.ty # "object" THEN EmptyMap
    ELSE LET m == imageStates.m
         IN  [f \in {g \in DOMAIN m : validateImageState(m[g])} |-> m[f]]

\* the records cleanupOldStates deletes at the instant t
Expired(images, t) ==
    LET expiryTime == t - stateExpiryDays
    IN  {f \in DOMAIN images :
            Truthy(images[f], "timestamp") /\ images[f].timestamp < expiryTime}

\* saveImageStates()
saveImageStates(b, sm, images) == StorageSet(b, sm, imageStatesKey, Obj(images))

\* cleanupOldStates(): the map, the browser and the storage manager afterwards
cleanupOldStates(b, sm, images, t) ==
    LET old  == Expired(images, t)
        kept == DeleteKeys(images, old)
    IN  IF Cardinality(old) > 0
        THEN [images |-> kept] @@ saveImageStates(b, sm, kept)
        ELSE [images |-> images, b |-> b, sm |-> sm]

\* loadState(): get never throws, so the catch branch is not taken
loadState(b, sm, t) ==
    cleanupOldStates(b, sm,
        validateImageStates(StorageGet(b, sm, imageStatesKey, Obj(EmptyMap))), t)

\* getImageState(filename): the record, or NullValue
getImageState(images, filename) ==
    IF filename \in DOMAIN images THEN images[filename] ELSE NullValue

\* { ...imageState, timestamp: Date.now() }
Stamped(imageState, t) ==
    [k \in DOMAIN imageState \cup {"timestamp"} |->
        IF k = "timestamp" THEN t ELSE imageState[k]]

\* setImageState(filename, imageState): the map, browser and storage manager
\* afterwards, the value returned and the events emitted
setImageState(b, sm, images, filename, imageState, t) ==
    IF ~validateImageState(imageState)
    THEN [images |-> images, b |-> b, sm |-> sm, ret |-> FALSE, events |-> << >>]
    ELSE LET next == PutKey(images, filename, Stamped(imageState, t))
             saved == saveImageStates(b, sm, next)
         IN  [images |-> next, b |-> saved.b, sm |-> saved.sm, ret |-> TRUE,
              events |-> << [name |-> "state:saved", filename |-> filename] >>]

\* validateTheme that lets every string through
validateThemeAnyString(value) == IF value.ty = "string" THEN value.s ELSE "light"

\* validateTheme(theme): ['light', 'dark'].includes(theme) ? theme : 'light'
validateTheme(value) ==
    IF value.ty = "string" /\ value.s \in {"light", "dark"} THEN value.s ELSE "light"

\* the theme loadState() reads
loadTheme(b, sm) == validateTheme(StorageGet(b, sm, themeKey, Str("light")))

\* setTheme without its comparison with the current theme
setThemeAlways(b, sm, current, value) ==
    LET validatedTheme == validateTheme(value)
        stored == StorageSet(b, sm, themeKey, Str(validatedTheme))
    IN  [theme |-> validatedTheme, b |-> stored.b, sm |-> stored.sm,
         events |-> << [name |-> "theme:updated", theme |-> validatedTheme] >>]

\* setTheme(theme): the theme, browser and storage manager afterwards and the
\* events emitted
setTheme(b, sm, current, value) ==
    LET validatedTheme == validateTheme(value)
        stored == StorageSet(b, sm, themeKey, Str(validatedTheme))
    IN  IF validatedTheme # current
        THEN [theme |-> validatedTheme, b |-> stored.b, sm |-> stored.sm,
              events |-> << [name |-> "theme:updated", theme |-> validatedTheme] >>]
        ELSE [theme |-> current, b |-> b, sm |-> sm, events |-> << >>]

\* resetAllStates that leaves the storage as it is
resetAllStatesInMemory(b, sm) ==
    [b |-> b, sm |-> sm, images |-> EmptyMap, events |-> << [name |-> "state:reset"] >>]

\* resetAllStates()
resetAllStates(b, sm) ==
    StorageRemove(b, sm, imageStatesKey)
        @@ [images |-> EmptyMap, events |-> << [name |-> "state:reset"] >>]

(***************************************************************************)
(* The state of the page.                                                  *)
(***************************************************************************)
VARIABLES
    page,            \* "unloaded", "initialized" once constructed, "running" with the
                     \* metadata; "grid" where the placement rule is applied alone
    canvas,          \* the width of the canvas: containerRect.width
    now,             \* Date.now(), in days
    browser,         \* localStorage and its quota; survives a reload of the page
    config,          \* ResizeHandler.config: preserveAspectRatio, snapToGrid
    storageManager,  \* StorageManager: isAvailable, fallbackStorage
    images,          \* StateManager.state.images
    theme,           \* StateManager.state.theme
    positions,       \* ImageManager.positions
    sizes,           \* ImageManager.sizes; << >> is an index that holds nothing
    containers,      \* ImageManager.containers: filename -> the tile's element
    loader,          \* the loadImagesProgressively loop that is waiting in its delay
    dragHandler,     \* DragHandler: isDragging, currentContainer, initialPosition
    resizeHandler,   \* ResizeHandler: isResizing, currentContainer, initialSize, aspectRatio
    emitted,         \* the events the last step emitted on the event bus, in order
    returned,        \* what the last setImageState call made from outside returned
    gestures,        \* the drags and resizes begun since the page was opened
    eventBus,        \* EventBus: events (event -> listeners), with the calls of the
                     \* last emit and what the last call returned
    twin,            \* a second StorageManager, on the in-memory fallback
    linkPreviewLoader, \* LinkPreviewLoader: cache, and the calls in progress
    app,             \* SnowballApp: isInitialized, the error shown, and what the
                     \* fetch of the metadata document failed by
    components       \* ThemeToggle, ResetButton and SavedIndicator

vars == <<page, canvas, now, browser, config, storageManager, images, theme, positions, sizes,
          containers, loader, dragHandler, resizeHandler, emitted, returned,
          gestures, eventBus, twin, linkPreviewLoader, app, components>>

\* The page as one record, which the handlers below take and give back.
Cur ==
    [browser |-> browser, storageManager |-> storageManager, images |-> images,
     positions |-> positions, sizes |-> sizes, containers |-> containers,
     loader |-> loader, dragHandler |-> dragHandler, resizeHandler |-> resizeHandler,
     emitted |-> << >>]

Becomes(S) ==
    /\ browser' = S.browser
    /\ storageManager' = S.storageManager
    /\ images' = S.images
    /\ positions' = S.positions
    /\ sizes' = S.sizes
    /\ containers' = S.containers
    /\ loader' = S.loader
    /\ dragHandler' = S.dragHandler
    /\ resizeHandler' = S.resizeHandler
    /\ emitted' = S.emitted

Emit(S, event) == [S EXCEPT !.emitted = Append(@, event)]

(***************************************************************************)
(* ImageManager.                                                           *)
(***************************************************************************)
Undefined == << >>
IsDefined(v) == v # Undefined

\* array[index] of JavaScript, index counted from 0
At(array, index) ==
    IF index >= 0 /\ index < Len(array) THEN array[index + 1] ELSE Undefined

\* array[index] = v of JavaScript: an index past the end leaves empty slots
SetAt(array, index, v) ==
    [k \in 1..Max(Len(array), index + 1) |->
        IF k = index + 1 THEN v ELSE IF k <= Len(array) THEN array[k] ELSE Undefined]

\* calculateScaledSizes with every image scaled by a half, whatever its area
ScaledSizeHalf(w, h, effectiveWidth) ==
    LET scaled == <<w \div 2, h \div 2>>
    IN  IF scaled[1] + 10 > effectiveWidth
        THEN <<effectiveWidth - 10,
               RFloor(Rat(scaled[2] * (effectiveWidth - 10) * 2, w))>>
        ELSE scaled

\* calculateScaledSizes that keeps the proportions of a clamped image
ScaledSizeProportional(w, h, effectiveWidth) ==
    LET scaled == IF w * h > 16 * goalPixels THEN <<w \div 8, h \div 8>>
                  ELSE IF w * h > 4 * goalPixels THEN <<w \div 4, h \div 4>>
                  ELSE <<w \div 2, h \div 2>>
    IN  IF scaled[1] + 10 > effectiveWidth
        THEN <<effectiveWidth - 10,
               RFloor(Rat(scaled[2] * (effectiveWidth - 10), scaled[1]))>>
        ELSE scaled

\* calculateScaledSizes(metadata): the sizes array it assigns
ScaledSize(w, h, effectiveWidth) ==
    LET scaled == IF w * h > 16 * goalPixels THEN <<w \div 8, h \div 8>>
                  ELSE IF w * h > 4 * goalPixels THEN <<w \div 4, h \div 4>>
                  ELSE <<w \div 2, h \div 2>>
    IN  IF scaled[1] + 10 > effectiveWidth
        THEN <<effectiveWidth - 10,
               RFloor(Rat(scaled[2] * (effectiveWidth - 10) * 2, w))>>
        ELSE scaled

\* calculateScaledSizes(metadata) on a canvas of the given width
calculateScaledSizesIn(effectiveWidth, metadata) ==
    [k \in 1..Len(metadata) |->
        ScaledSize(metadata[k][2][1], metadata[k][2][2], effectiveWidth)]

calculateScaledSizes(metadata) == calculateScaledSizesIn(ContainerWidth, metadata)

\* calculatePosition(size, index) on a canvas of the given width
calculatePositionIn(screenWidth, size, index) ==
    LET width == size[1]
        height == size[2]
        cols == Max(1, screenWidth \div (width + 20))
        row == index \div cols
        col == index % cols
    IN  <<col * (width + 20) + 10, row * (height + 20) + 10>>

\* calculatePosition(size, index)
calculatePosition(size, index) == calculatePositionIn(ContainerWidth, size, index)

\* wouldOverlap(x, y, width, height, excludeIndex), from index i on: "true",
\* "false", or "throws" where the loop reads a size that is not there.
\* x, y, width and height are rationals.
RECURSIVE OverlapFrom(_, _, _, _, _, _, _, _)
OverlapFrom(pos, siz, i, x, y, width, height, excludeIndex) ==
    IF i >= Len(pos) THEN "false"
    ELSE IF i = excludeIndex
         THEN OverlapFrom(pos, siz, i + 1, x, y, width, height, excludeIndex)
    ELSE IF ~IsDefined(At(siz, i)) THEN "throws"
    ELSE LET otherX == R(pos[i + 1][1])
             otherY == R(pos[i + 1][2])
             otherWidth == R(At(siz, i)[1])
             otherHeight == R(At(siz, i)[2])
             buffer == R(minSpacing)
         IN  IF /\ RLt(x, RAdd(RAdd(otherX, otherWidth), buffer))
                /\ RLt(otherX, RAdd(RAdd(x, width), buffer))
                /\ RLt(otherY, RAdd(RAdd(y, height), buffer))
                /\ RLt(y, RAdd(RAdd(otherY, otherHeight), buffer))
             THEN "true"
             ELSE OverlapFrom(pos, siz, i + 1, x, y, width, height, excludeIndex)

wouldOverlap(S, x, y, width, height, excludeIndex) ==
    OverlapFrom(S.positions, S.sizes, 0, x, y, width, height, excludeIndex)

\* updateImagePosition(index, position)
updateImagePosition(S, index, position) ==
    IF index >= 0 /\ index < Len(S.positions)
    THEN [S EXCEPT !.positions = SetAt(@, index, position)]
    ELSE S

\* updateImageSize(index, size)
updateImageSize(S, index, size) ==
    IF index >= 0 /\ index < Len(S.sizes)
    THEN [S EXCEPT !.sizes = SetAt(@, index, size)]
    ELSE S

\* getFilenameByIndex(index): this.metadata is the document as it was fetched
getFilenameByIndex(index) ==
    IF index < 0 \/ index >= Len(Metadata) THEN Undefined ELSE <<Metadata[index + 1][1]>>

\* stateManager.setImageState called from a handler of the image manager
SaveState(S, filename, imageState, t) ==
    LET r == setImageState(S.browser, S.storageManager, S.images, filename, imageState, t)
    IN  [S EXCEPT !.browser = r.b, !.storageManager = r.sm, !.images = r.images,
                  !.emitted = @ \o r.events]

\* the object literal { position: p, size: s }: a property that is undefined
\* is a field that is missing
StateOf(p, s) ==
    [k \in (IF IsDefined(p) THEN {"position"} ELSE {}) \cup
           (IF IsDefined(s) THEN {"size"} ELSE {}) |->
        IF k = "position" THEN p ELSE s]

\* handleDragEnd(data), on 'drag:end'
handleDragEnd(S, index, position, t) ==
    LET S1 == updateImagePosition(S, index, position)
        filename == getFilenameByIndex(index)
    IN  IF IsDefined(filename)
        THEN SaveState(S1, filename[1], StateOf(position, At(S1.sizes, index)), t)
        ELSE S1

\* handleResizeEnd(data), on 'resize:end'
handleResizeEnd(S, index, size, t) ==
    LET S1 == updateImageSize(S, index, size)
        filename == getFilenameByIndex(index)
    IN  IF IsDefined(filename)
        THEN SaveState(S1, filename[1], StateOf(At(S1.positions, index), size), t)
        ELSE S1

(***************************************************************************)
(* Tiles.  A tile's element carries the filename and index it was created  *)
(* for, its style (left, top, width, height, rationals of pixels) and the  *)
(* image's natural size.  A handler's currentContainer is null, an element *)
(* of the document (named by its filename) or an element that              *)
(* clearAllImages has removed from the document while the handler held it. *)
(***************************************************************************)
NoContainer == [kind |-> "null"]
Attached(f) == [kind |-> "attached", file |-> f]
Detached(el) == [kind |-> "detached", el |-> el]

ElementOf(S, ref) == IF ref.kind = "attached" THEN S.containers[ref.file] ELSE ref.el

\* getBoundingClientRect() of a tile: an element out of the document has no box
RectSize(ref, el) ==
    IF ref.kind = "attached" THEN <<el.width, el.height>> ELSE <<R(0), R(0)>>

\* img.width and img.height of a tile in the document: the rendered size in
\* whole pixels
RenderedSize(el) == <<RRound(el.width), RRound(el.height)>>

\* img.width and img.height of a tile out of the document: the natural size
\* if the image has been decoded, else 0
UnrenderedSizes(el) == {<<0, 0>>, el.natural}

\* new ImageContainer(...), render(), setPosition and setSize
NewElement(filename, index, position, size, originalSize) ==
    [file |-> filename, index |-> index,
     left |-> R(position[1]), top |-> R(position[2]),
     width |-> R(size[1]), height |-> R(size[2]),
     natural |-> originalSize]

\* loadSingleImage(filename, originalSize, scaledSize, index): the page
\* afterwards and whether it returned (ok) or threw
loadSingleImage(S, filename, originalSize, scaledSize, index) ==
    LET savedState == getImageState(S.images, filename)
    IN  IF savedState # NullValue
        THEN [S  |-> [S EXCEPT
                        !.positions = Append(@, savedState.position),
                        !.sizes = SetAt(@, index, savedState.size),
                        !.containers = PutKey(@, filename,
                            NewElement(filename, index, savedState.position,
                                       savedState.size, originalSize))],
              ok |-> TRUE]
        ELSE IF ~IsDefined(scaledSize)
        \* calculatePosition destructures a size that is undefined: TypeError
        THEN [S |-> S, ok |-> FALSE]
        ELSE LET finalPosition == calculatePosition(scaledSize, index)
             IN  [S  |-> [S EXCEPT
                            !.positions = Append(@, finalPosition),
                            !.containers = PutKey(@, filename,
                                NewElement(filename, index, finalPosition,
                                           scaledSize, originalSize))],
                  ok |-> TRUE]

\* loadImagesProgressively without its catch: the error of an image leaves
\* the loop and loadImages
RECURSIVE LoadFromAborting(_, _, _, _)
LoadFromAborting(S, metadata, hasSavedStates, i) ==
    IF i >= Len(metadata)
    THEN Emit(S, [name |-> "images:loaded", count |-> Len(metadata),
                  hasSavedStates |-> hasSavedStates])
    ELSE LET filename == metadata[i + 1][1]
             r == loadSingleImage(S, filename, metadata[i + 1][2], At(S.sizes, i), i)
         IN  IF r.ok
             THEN IF i < Len(metadata) - 1
                  THEN [r.S EXCEPT !.loader = Append(@,
                           [metadata |-> metadata, hasSavedStates |-> hasSavedStates,
                            i |-> i + 1])]
                  ELSE LoadFromAborting(r.S, metadata, hasSavedStates, i + 1)
             ELSE r.S

\* loadImagesProgressively(metadata) from image i on, up to the delay it
\* waits in after an image that loaded, or to its end and the
\* 'images:loaded' that loadImages emits after it
RECURSIVE LoadFrom(_, _, _, _)
LoadFrom(S, metadata, hasSavedStates, i) ==
    IF i >= Len(metadata)
    THEN Emit(S, [name |-> "images:loaded", count |-> Len(metadata),
                  hasSavedStates |-> hasSavedStates])
    ELSE LET filename == metadata[i + 1][1]
             r == loadSingleImage(S, filename, metadata[i + 1][2], At(S.sizes, i), i)
         IN  IF r.ok
             THEN IF i < Len(metadata) - 1
                  THEN [r.S EXCEPT !.loader = Append(@,
                           [metadata |-> metadata, hasSavedStates |-> hasSavedStates,
                            i |-> i + 1])]
                  ELSE LoadFrom(r.S, metadata, hasSavedStates, i + 1)
             ELSE LoadFrom(Emit(r.S, [name |-> "image:error", filename |-> filename,
                                      index |-> i]),
                           metadata, hasSavedStates, i + 1)

\* clearAllImages(): the tiles leave the document; a handler that holds one
\* keeps the element
Release(S, ref) ==
    IF ref.kind = "attached" THEN Detached(S.containers[ref.file]) ELSE ref

clearAllImages(S) ==
    [S EXCEPT !.dragHandler.currentContainer = Release(S, @),
              !.resizeHandler.currentContainer = Release(S, @),
              !.containers = EmptyMap,
              !.positions = << >>,
              !.sizes = << >>]

\* the orders shuffleArray can leave the document in
Shuffles(seq) ==
    {[k \in 1..Len(seq) |-> seq[p[k]]] :
        p \in {q \in [1..Len(seq) -> 1..Len(seq)] :
                  \A a, b \in 1..Len(seq) : a # b => q[a] # q[b]}}

\* loadImages(imageMetadata), `shuffled` being what shuffleArray returns
loadImages(S, imageMetadata, shuffled) ==
    LET hasSavedStates == Cardinality(DOMAIN S.images) > 0
        processedMetadata == IF hasSavedStates THEN imageMetadata ELSE shuffled
        S1 == [S EXCEPT !.sizes = calculateScaledSizes(processedMetadata)]
        S2 == clearAllImages(S1)
        S3 == [S2 EXCEPT !.positions = << >>]
    IN  LoadFrom(S3, processedMetadata, hasSavedStates, 0)

(***************************************************************************)
(* DragHandler.                                                            *)
(***************************************************************************)
\* the drag handler as constructed.  endDrag leaves initialPosition as it is;
\* nothing reads it before startDrag assigns it again, and the model puts the
\* constructor's value back
IdleDragHandler ==
    [isDragging |-> FALSE, currentContainer |-> NoContainer, initialPosition |-> <<0, 0>>]

\* the style of a handler's current element, attached or not
SetStyle(S, ref, el) ==
    IF ref.kind = "attached" THEN [S EXCEPT !.containers[ref.file] = el] ELSE S

\* startDrag without its test of isDragging
startDragAgain(S, f) ==
    LET el == S.containers[f]
        initialPosition == <<ParseInt(el.left), ParseInt(el.top)>>
    IN  Emit([S EXCEPT !.dragHandler =
                 [isDragging |-> TRUE, currentContainer |-> Attached(f),
                  initialPosition |-> initialPosition]],
             [name |-> "drag:start", index |-> el.index, position |-> initialPosition])

\* startDrag(container, clientX, clientY) on the tile of filename f
startDrag(S, f) ==
    IF S.dragHandler.isDragging THEN S
    ELSE LET el == S.containers[f]
             initialPosition == <<ParseInt(el.left), ParseInt(el.top)>>
         IN  Emit([S EXCEPT !.dragHandler =
                      [isDragging |-> TRUE, currentContainer |-> Attached(f),
                       initialPosition |-> initialPosition]],
                  [name |-> "drag:start", index |-> el.index, position |-> initialPosition])

\* applyBoundaryConstraints that does not limit x from the right
applyBoundaryConstraintsLeftOnly(S, x, y) ==
    <<RMax(R(boundaryPadding), x), RMax(R(boundaryPadding), y)>>

\* applyBoundaryConstraints(x, y)
applyBoundaryConstraints(S, x, y) ==
    LET ref == S.dragHandler.currentContainer
        elementRect == RectSize(ref, ElementOf(S, ref))
        minX == R(boundaryPadding)
        minY == R(boundaryPadding)
        maxX == RSub(RSub(R(ContainerWidth), elementRect[1]), R(boundaryPadding))
    IN  <<RMax(minX, RMin(x, maxX)), RMax(minY, y)>>

\* checkOverlap that reports no overlap wherever the tile is
checkOverlapNever(S, x, y, excludeIndex) == "false"

\* checkOverlap(x, y, excludeIndex)
checkOverlap(S, x, y, excludeIndex) ==
    LET ref == S.dragHandler.currentContainer
        rect == RectSize(ref, ElementOf(S, ref))
    IN  wouldOverlap(S, x, y, rect[1], rect[2], excludeIndex)

\* updateDragPosition(clientX, clientY), the pointer being (dx, dy) from where
\* the drag started; snapToGrid is off
updateDragPosition(S, dx, dy) ==
    LET ref == S.dragHandler.currentContainer
        el == ElementOf(S, ref)
        constrained == applyBoundaryConstraints(S,
                           R(S.dragHandler.initialPosition[1] + dx),
                           R(S.dragHandler.initialPosition[2] + dy))
        overlap == checkOverlap(S, constrained[1], constrained[2], el.index)
        moved == [el EXCEPT !.left = constrained[1], !.top = constrained[2]]
        S1 == IF ref.kind = "attached" THEN SetStyle(S, ref, moved)
              ELSE [S EXCEPT !.dragHandler.currentContainer = Detached(moved)]
    IN  IF ref = NoContainer \/ overlap = "throws" THEN S
        ELSE Emit(S1, [name |-> "drag:move", index |-> el.index,
                       position |-> <<constrained[1], constrained[2]>>,
                       wouldOverlap |-> (overlap = "true")])

\* endDrag()
endDrag(S, t) ==
    LET ref == S.dragHandler.currentContainer
        el == ElementOf(S, ref)
        finalPosition == <<ParseInt(el.left), ParseInt(el.top)>>
        initialPosition == S.dragHandler.initialPosition
        overlap == checkOverlap(S, R(finalPosition[1]), R(finalPosition[2]), el.index)
        reverted == [el EXCEPT !.left = R(initialPosition[1]), !.top = R(initialPosition[2])]
        S1 == IF overlap = "true"
              THEN Emit(SetStyle(S, ref, reverted),
                        [name |-> "drag:cancelled", index |-> el.index,
                         reason |-> "overlap", originalPosition |-> initialPosition])
              ELSE handleDragEnd(
                       Emit(S, [name |-> "drag:end", index |-> el.index,
                                position |-> finalPosition]),
                       el.index, finalPosition, t)
    IN  IF ~S.dragHandler.isDragging \/ ref = NoContainer \/ overlap = "throws" THEN S
        ELSE [S1 EXCEPT !.dragHandler = IdleDragHandler]

(***************************************************************************)
(* ResizeHandler.                                                          *)
(***************************************************************************)
resizeGridSize == 10

\* the resize handler as constructed; initialSize and aspectRatio after
\* endResize as initialPosition after endDrag
IdleResizeHandler ==
    [isResizing |-> FALSE, currentContainer |-> NoContainer,
     initialSize |-> <<0, 0>>, aspectRatio |-> R(1)]

\* startResize(container, clientX, clientY) on the tile of filename f
startResize(S, f) ==
    IF S.resizeHandler.isResizing THEN S
    ELSE LET el == S.containers[f]
             initialSize == RenderedSize(el)
             aspectRatio == Rat(initialSize[1], initialSize[2])
         IN  Emit([S EXCEPT !.resizeHandler =
                      [isResizing |-> TRUE, currentContainer |-> Attached(f),
                       initialSize |-> initialSize, aspectRatio |-> aspectRatio]],
                  [name |-> "resize:start", index |-> el.index,
                   initialSize |-> initialSize, aspectRatio |-> aspectRatio])

\* applySizeConstraints that clamps each axis and leaves the ratio alone
applySizeConstraintsPerAxis(cfg, aspectRatio, width, height) ==
    <<RMin(R(maxSize), RMax(R(minSize), width)),
      RMin(R(maxSize), RMax(R(minSize), height))>>

\* applySizeConstraints(width, height)
applySizeConstraints(cfg, aspectRatio, width, height) ==
    LET w1 == RMin(R(maxSize), RMax(R(minSize), width))
        h1 == RMin(R(maxSize), RMax(R(minSize), height))
        h2 == RDiv(w1, aspectRatio)
    IN  IF ~cfg.preserveAspectRatio THEN <<w1, h1>>
        ELSE IF RLt(R(maxSize), h2) THEN <<RMul(R(maxSize), aspectRatio), R(maxSize)>>
        ELSE IF RLt(h2, R(minSize)) THEN <<RMul(R(minSize), aspectRatio), R(minSize)>>
        ELSE <<w1, h2>>

\* Math.round(v / gridSize) * gridSize
SnapToGrid(v) == R(RRound(RDiv(v, R(resizeGridSize))) * resizeGridSize)

\* the size updateResizeSize arrives at for a pointer (dx, dy) from where the
\* resize started
ResizedSize(cfg, initialSize, aspectRatio, dx, dy) ==
    LET newWidth == R(initialSize[1] + dx)
        newHeight == IF cfg.preserveAspectRatio THEN RDiv(newWidth, aspectRatio)
                     ELSE R(initialSize[2] + dy)
        constrained == applySizeConstraints(cfg, aspectRatio, newWidth, newHeight)
        snappedWidth == SnapToGrid(constrained[1])
    IN  IF ~cfg.snapToGrid THEN constrained
        ELSE IF cfg.preserveAspectRatio THEN <<snappedWidth, RDiv(snappedWidth, aspectRatio)>>
        ELSE <<snappedWidth, SnapToGrid(constrained[2])>>

\* updateResizeSize(clientX, clientY) and applyNewSize
updateResizeSize(S, cfg, dx, dy) ==
    LET ref == S.resizeHandler.currentContainer
        el == ElementOf(S, ref)
        size == ResizedSize(cfg, S.resizeHandler.initialSize,
                            S.resizeHandler.aspectRatio, dx, dy)
        resized == [el EXCEPT !.width = size[1], !.height = size[2]]
        S1 == IF ref.kind = "attached" THEN SetStyle(S, ref, resized)
              ELSE [S EXCEPT !.resizeHandler.currentContainer = Detached(resized)]
    IN  IF ref = NoContainer THEN S
        ELSE Emit(S1, [name |-> "resize:move", index |-> el.index, size |-> size])

\* endResize(), finalSize being what img.width and img.height read
endResize(S, finalSize, t) ==
    LET ref == S.resizeHandler.currentContainer
        el == ElementOf(S, ref)
        S1 == handleResizeEnd(
                  Emit(S, [name |-> "resize:end", index |-> el.index, size |-> finalSize]),
                  el.index, finalSize, t)
    IN  IF ~S.resizeHandler.isResizing \/ ref = NoContainer THEN S
        ELSE [S1 EXCEPT !.resizeHandler = IdleResizeHandler]

\* what img.width and img.height of the resize handler's element can read
FinalSizes(S) ==
    LET ref == S.resizeHandler.currentContainer
    IN  IF ref.kind = "attached" THEN {RenderedSize(ElementOf(S, ref))}
        ELSE IF ref.kind = "detached" THEN UnrenderedSizes(ref.el)
        ELSE {<<0, 0>>}

(***************************************************************************)
(* What the browser may hold when the page is opened, and the inputs.      *)
(***************************************************************************)
\* the instants Date.now() takes, in days
Instants == {2, 32}

Rec(p, sz, ts) == [position |-> p, size |-> sz, timestamp |-> ts]

\* records a previous session, an older version of the page or another
\* script of the origin may have left under a filename
ValidRecords(f) ==
    CASE f = "a" -> {Rec(<<10, 10>>, <<100, 50>>, 1)}
      [] f = "b" -> {Rec(<<130, 10>>, <<100, 50>>, 1), Rec(<<60, 10>>, <<100, 50>>, 2)}
      [] f = "c" -> {Rec(<<10, 80>>, <<410, 10>>, 2)}

\* records for the sessions on the state store: well-formed ones that are
\* old, recent, without a timestamp or with timestamp 0, and malformed ones
StoreRecords(f) ==
    CASE f = "a" -> {Rec(<<10, 10>>, <<100, 50>>, 1),
                     [position |-> <<10, 10>>, size |-> <<100, 50>>],
                     Rec(<<10, 10>>, <<100, 50>>, 0)}
      [] f = "b" -> {Rec(<<130, 10>>, <<100, 50>>, 2),
                     NullValue,
                     Rec(<<130, 10>>, <<0, 50>>, 1)}
      [] f = "c" -> {Rec(<<10, 80>>, <<410, 10>>, 1),
                     Rec(<<10, NonFinite>>, <<410, 10>>, 2),
                     [position |-> <<10, 80>>, timestamp |-> 2]}

\* the maps that hold, under some of the filenames, one of choice[f] each
MapsOver(choice) ==
    UNION {[fs -> UNION {choice[f] : f \in fs}] : fs \in SUBSET Filenames}

RecordMaps(choice) ==
    {m \in MapsOver(choice) : \A f \in DOMAIN m : m[f] \in choice[f]}

\* the pointer's offsets from where a drag started, and from where a resize
\* started
DragDeltas == {<<120, 0>>, <<0, 70>>}
ResizeDeltas == {<<-3000, 0>>, <<955, 0>>}

\* the records setImageState is called with from outside
ApiStates ==
    {[position |-> <<10, 150>>, size |-> <<100, 50>>],
     [position |-> <<10, 150>>, size |-> <<100, 50>>, timestamp |-> 1],
     NullValue,
     [position |-> <<10, 150>>],
     [position |-> <<10>>, size |-> <<100, 50>>],
     [position |-> <<10, NonFinite>>, size |-> <<100, 50>>],
     [position |-> <<10, 150>>, size |-> <<100, 50, 1>>],
     [position |-> <<10, 150>>, size |-> <<NonFinite, 50>>],
     [position |-> <<10, 150>>, size |-> <<100, 0>>],
     [position |-> <<10, 150>>, size |-> <<-100, 50>>]}

\* the values setTheme is called with
ThemeArgs == {Str("dark"), Str("light"), Str("blue"), Num(1), [ty |-> "null"]}

\* ResizeHandler.config as constructed, and with grid snapping switched on
DefaultConfig == [preserveAspectRatio |-> TRUE, snapToGrid |-> FALSE]
Configs == {DefaultConfig, [DefaultConfig EXCEPT !.snapToGrid = TRUE]}

(***************************************************************************)
(* EventBus.  events maps an event that has listeners to their array, in   *)
(* subscription order; a listener is {callback, context}.  A callback is   *)
(* one of the functions below, or the onceWrapper that a call of once      *)
(* created, which carries what its closure holds.  calls lists the         *)
(* invocations the last call of the bus made, with the depth of the emit   *)
(* that made each; onceCalls counts the invocations of each onceWrapper.   *)
(***************************************************************************)
\* the emits that handlers nest inside one emit
MaxDepth == 1

\* new EventBus()
NewEventBus == [events |-> EmptyMap, calls |-> << >>, onceCalls |-> << >>, result |-> "none"]

\* the functions that subscribe: f returns; boom throws; adder subscribes f
\* to the event it hears, remover unsubscribes f from it, again emits it
\* once more
Functions == {"f", "boom", "adder", "remover", "again"}

Fn(name) == [fn |-> name]

ListenersOf(B, event) == IF event \in DOMAIN B.events THEN B.events[event] ELSE << >>

\* on(event, callback, context)
on(B, event, callback, context) ==
    [B EXCEPT !.events = PutKey(@, event, Append(ListenersOf(B, event),
                                                  [callback |-> callback, context |-> context]))]

\* listeners.findIndex(callback and context both identical), 0 for none
findIndex(listeners, callback, context) ==
    LET found == {i \in DOMAIN listeners :
                     listeners[i].callback = callback /\ listeners[i].context = context}
    IN  IF found = {} THEN 0 ELSE CHOOSE i \in found : \A j \in found : i <= j

\* listeners.splice(index, 1)
Splice(listeners, index) ==
    SubSeq(listeners, 1, index - 1) \o SubSeq(listeners, index + 1, Len(listeners))

\* off that removes every listener that matches
offAll(B, event, callback, context) ==
    LET listeners == ListenersOf(B, event)
        rest == SelectSeq(listeners,
                    LAMBDA l : ~(l.callback = callback /\ l.context = context))
    IN  IF Len(rest) = Len(listeners) THEN [B EXCEPT !.result = "false"]
        ELSE [B EXCEPT !.events = IF Len(rest) = 0 THEN DeleteKeys(@, {event})
                                  ELSE PutKey(@, event, rest),
                       !.result = "true"]

\* off(event, callback, context)
off(B, event, callback, context) ==
    LET listeners == ListenersOf(B, event)
        index == findIndex(listeners, callback, context)
        rest == Splice(listeners, index)
    IN  IF index = 0 THEN [B EXCEPT !.result = "false"]
        ELSE [B EXCEPT !.events = IF Len(rest) = 0 THEN DeleteKeys(@, {event})
                                  ELSE PutKey(@, event, rest),
                       !.result = "true"]

\* once(event, callback, context): the onceWrapper subscribed with context
once(B, event, callback, context) ==
    LET n == Len(B.onceCalls) + 1
        onceWrapper == [fn |-> callback.fn, wrapper |-> n, event |-> event, context |-> context]
    IN  on([B EXCEPT !.onceCalls = Append(@, 0)], event, onceWrapper, context)

\* forEach over the listeners array itself, as it is when index i is reached
ListenerAtLive(B, event, listenersCopy, i) ==
    IF i <= Len(ListenersOf(B, event)) THEN ListenersOf(B, event)[i] ELSE listenersCopy[i]

\* emit's loop without its try and catch
Uncaught(r) == r

\* the listener that forEach visits at index i of listenersCopy
ListenerAt(B, event, listenersCopy, i) == listenersCopy[i]

\* the catch of emit's loop: the error is logged
Caught(r) == [r EXCEPT !.threw = FALSE]

RECURSIVE emit(_, _, _)
RECURSIVE forEach(_, _, _, _, _)
RECURSIVE Run(_, _, _, _)

\* the body of the function named fn, called for an event by the emit at
\* depth: the bus afterwards and whether it threw
Run(B, fn, event, depth) ==
    IF fn = "boom" THEN [bus |-> B, threw |-> TRUE]
    ELSE IF fn = "adder" THEN [bus |-> on(B, event, Fn("f"), "null"), threw |-> FALSE]
    ELSE IF fn = "remover" THEN [bus |-> off(B, event, Fn("f"), "null"), threw |-> FALSE]
    ELSE IF fn = "again" /\ depth < MaxDepth THEN emit(B, event, depth + 1)
    ELSE [bus |-> B, threw |-> FALSE]

\* callback.call(context, data): a onceWrapper calls this.off(event,
\* onceWrapper) and then callback.apply(context, args)
Invoke(B, listener, event, depth) ==
    LET cb == listener.callback
        B1 == [B EXCEPT !.calls = Append(@, [listener |-> listener, event |-> event,
                                             depth |-> depth])]
    IN  IF "wrapper" \in DOMAIN cb
        THEN Run([off(B1, cb.event, cb, "null")
                     EXCEPT !.onceCalls[cb.wrapper] = IF @ < 2 THEN @ + 1 ELSE @],
                 cb.fn, event, depth)
        ELSE Run(B1, cb.fn, event, depth)

\* listenersCopy.forEach(...) from index i on
forEach(B, event, listenersCopy, i, depth) ==
    IF i > Len(listenersCopy) THEN [bus |-> B, threw |-> FALSE]
    ELSE LET r == Caught(Invoke(B, ListenerAt(B, event, listenersCopy, i), event, depth))
         IN  IF r.threw THEN r ELSE forEach(r.bus, event, listenersCopy, i + 1, depth)

\* emit(event, data)
emit(B, event, depth) ==
    IF event \notin DOMAIN B.events THEN [bus |-> B, threw |-> FALSE]
    ELSE forEach(B, event, B.events[event], 1, depth)

(***************************************************************************)
(* A second StorageManager and the LinkPreviewLoader.                      *)
(***************************************************************************)
NewTwin == [storageManager |-> [isAvailable |-> FALSE, fallbackStorage |-> EmptyMap],
            returned |-> [ty |-> "null"]]

\* The repository has two classes LinkPreviewLoader: file "page" is
\* scripts/LinkPreviewLoader.js, file "core" the one in
\* scripts/core/StateManager.js.  calls: the calls of fetchLinkPreview, each
\* with where it is (pc), the metadata API it waits for, the network requests
\* it has issued and the preview it returned
NewLinkPreviewLoader(file) == [file |-> file, cache |-> EmptyMap, calls |-> << >>]

\* the metadata APIs that fetchRealMetadata tries one after the other
PageApis == 3
CoreApis == 2
Apis(file) == IF file = "page" THEN PageApis ELSE CoreApis

\* the preview made from an API's answer, and generateFallbackPreview(url)
FetchedPreview(url) == [title |-> "fetched", siteName |-> url, favicon |-> url]
generateFallbackPreview(url) == [title |-> "fallback", siteName |-> url, favicon |-> url]

NoPreview == [title |-> "none"]

\* fetchLinkPreview(url) up to its first await, or to its return when the
\* url is cached
fetchLinkPreview(L, url) ==
    [L EXCEPT !.calls = Append(@,
        IF url \in DOMAIN L.cache
        THEN [url |-> url, pc |-> "done", api |-> 0, requests |-> 0,
              preview |-> L.cache[url]]
        ELSE [url |-> url, pc |-> "metadata", api |-> 1, requests |-> 1,
              preview |-> NoPreview])]

\* the catch of fetchLinkPreview: the fallback goes to the cache; in file
\* "page" the call then awaits a HEAD request for the favicon
CatchMetadataError(L, c) ==
    LET url == L.calls[c].url
        fallback == generateFallbackPreview(url)
    IN  [L EXCEPT !.cache = PutKey(@, url, fallback),
                  !.calls[c] =
                      IF L.file = "page"
                      THEN [@ EXCEPT !.pc = "favicon", !.requests = @ + 1]
                      ELSE [@ EXCEPT !.pc = "done", !.preview = fallback]]

\* the request to the API that call c waits for ends: with useful metadata,
\* or in a way that makes fetchRealMetadata go to the next API and, after
\* the last, throw
MetadataResponse(L, c, useful) ==
    LET call == L.calls[c]
    IN  IF useful
        THEN [L EXCEPT !.cache = PutKey(@, call.url, FetchedPreview(call.url)),
                       !.calls[c] = [@ EXCEPT !.pc = "done",
                                              !.preview = FetchedPreview(call.url)]]
        ELSE IF call.api < Apis(L.file)
        THEN [L EXCEPT !.calls[c] = [@ EXCEPT !.api = @ + 1, !.requests = @ + 1]]
        ELSE CatchMetadataError(L, c)

\* the HEAD request for the favicon ends, well or not: `fallback.favicon =
\* faviconUrl` assigns the address that generateFallbackPreview had put there
FaviconResponse(L, c) ==
    [L EXCEPT !.calls[c] = [@ EXCEPT !.pc = "done", !.preview = L.cache[L.calls[c].url]]]

(***************************************************************************)
(* ThemeToggle, ResetButton and SavedIndicator, with the state manager's   *)
(* handlers, on the event bus.  A component subscribes a method bound to   *)
(* itself, method.bind(this): a function of its own, other than the method *)
(* and than every other bind of it.  The payload of an event is a string,  *)
(* null or an object.  T is the part of the page that the handlers change: *)
(* bus, browser, storageManager, images, theme, components and emitted.    *)
(***************************************************************************)
\* the emits that the handlers of the page nest inside one call
MaxNesting == 4

NullData == [ty |-> "null"]

\* data.k
Prop(data, k) ==
    IF data.ty = "object" /\ k \in DOMAIN data.m THEN data.m[k] ELSE [ty |-> "undefined"]

\* method.bind(object), and the method itself
Bound(method, object) == [fn |-> method, boundTo |-> object]
Method(method) == [fn |-> method]

\* the components as constructed and rendered; element: the component's
\* element is in the document
NewComponents(currentTheme) ==
    [themeToggle |-> [currentTheme |-> Str(currentTheme), element |-> TRUE],
     resetButton |-> [element |-> TRUE],
     savedIndicator |-> [element |-> TRUE, isVisible |-> FALSE]]

\* the setupEventListeners of the state manager, of ThemeToggle, of
\* ResetButton and of SavedIndicator, in the order of construction
setupEventListeners(B, object) ==
    LET methods ==
            CASE object = "stateManager" ->
                   << <<"image:moved", "handleImageMoved">>,
                      <<"image:resized", "handleImageResized">>,
                      <<"theme:changed", "handleThemeChanged">>,
                      <<"positions:reset", "handlePositionsReset">> >>
              [] object = "themeToggle" ->
                   << <<"theme:updated", "handleThemeUpdate">>,
                      <<"theme:set", "handleExternalThemeChange">> >>
              [] object = "resetButton" ->
                   << <<"reset:request", "handleResetRequest">> >>
              [] object = "savedIndicator" ->
                   << <<"state:saved", "handleStateSaved">>,
                      <<"message:show", "handleMessageShow">>,
                      <<"save:error", "handleSaveError">>,
                      <<"save:success", "handleSaveSuccess">> >>
        Subscribe[k \in 0..Len(methods)] ==
            IF k = 0 THEN B
            ELSE on(Subscribe[k - 1], methods[k][1], Bound(methods[k][2], object), "null")
    IN  Subscribe[Len(methods)]

\* the bus after initializeCore and initializeComponents
ComponentsBus ==
    setupEventListeners(
        setupEventListeners(
            setupEventListeners(
                setupEventListeners(NewEventBus, "stateManager"),
                "themeToggle"),
            "resetButton"),
        "savedIndicator")

RECURSIVE Deliver(_, _, _, _)

\* StateManager.setTheme(theme); its emit of 'theme:updated' is at depth
StateManagerSetTheme(T, value, depth) ==
    LET r == setTheme(T.browser, T.storageManager, T.theme, value)
        T1 == [T EXCEPT !.browser = r.b, !.storageManager = r.sm, !.theme = r.theme]
    IN  IF r.events # << >> THEN Deliver(T1, "theme:updated", Str(r.theme), depth) ELSE T1

\* StateManager.handleThemeChanged(data): data.theme of null throws
handleThemeChanged(T, data, depth) ==
    IF data.ty = "null" THEN T
    ELSE StateManagerSetTheme(T, Prop(data, "theme"), depth + 1)

\* ThemeToggle.setTheme(theme); its emit of 'theme:changed' is at depth
ThemeToggleSetTheme(T, value, depth) ==
    LET previousTheme == T.components.themeToggle.currentTheme
    IN  IF ~(value.ty = "string" /\ value.s \in {"light", "dark"}) THEN T
        ELSE IF value = previousTheme THEN T
        ELSE Deliver([T EXCEPT !.components.themeToggle.currentTheme = value],
                     "theme:changed",
                     Obj(("theme" :> value) @@ ("previousTheme" :> previousTheme)
                             @@ ("source" :> Str("ThemeToggle"))),
                     depth)

\* ThemeToggle.toggle()
toggle(T) ==
    ThemeToggleSetTheme(T, IF T.components.themeToggle.currentTheme = Str("light")
                           THEN Str("dark") ELSE Str("light"), 0)

\* handleThemeUpdate that announces the theme it takes
handleThemeUpdateEchoing(T, value, depth) ==
    IF value # T.components.themeToggle.currentTheme
    THEN [T EXCEPT !.components.themeToggle.currentTheme = value]
    ELSE Deliver(T, "theme:changed",
                 Obj(("theme" :> value) @@ ("source" :> Str("ThemeToggle"))), depth + 1)

\* ThemeToggle.handleThemeUpdate(theme)
handleThemeUpdate(T, value, depth) ==
    IF value # T.components.themeToggle.currentTheme
    THEN [T EXCEPT !.components.themeToggle.currentTheme = value]
    ELSE T

\* ThemeToggle.handleExternalThemeChange(data): data.source of null throws
handleExternalThemeChange(T, data, depth) ==
    IF data.ty = "null" THEN T
    ELSE IF Prop(data, "source") # Str("ThemeToggle")
         THEN ThemeToggleSetTheme(T, Prop(data, "theme"), depth + 1)
         ELSE T

\* ResetButton.handleResetRequest(data) and reset(skipConfirmation) up to
\* its first await: with no saved record it shows its message and returns;
\* with records it opens its dialog, or goes on to the reset
handleResetRequest(T, data, depth) ==
    IF Cardinality(DOMAIN T.images) = 0
    THEN Deliver(T, "message:show",
                 Obj(("message" :> Str("No saved positions to reset"))
                         @@ ("type" :> Str("info")) @@ ("source" :> Str("ResetButton"))),
                 depth + 1)
    ELSE T

\* SavedIndicator.show(options): nothing without the element
show(T) ==
    IF T.components.savedIndicator.element
    THEN [T EXCEPT !.components.savedIndicator.isVisible = TRUE]
    ELSE T

\* SavedIndicator.handleMessageShow(data)
handleMessageShow(T, data) == IF data.ty = "null" THEN T ELSE show(T)

\* callback.call(context, data) for the bound methods
Call(T, callback, data, depth) ==
    CASE callback.fn = "handleThemeChanged" -> handleThemeChanged(T, data, depth)
      [] callback.fn = "handleThemeUpdate" -> handleThemeUpdate(T, data, depth)
      [] callback.fn = "handleExternalThemeChange" -> handleExternalThemeChange(T, data, depth)
      [] callback.fn = "handleResetRequest" -> handleResetRequest(T, data, depth)
      [] callback.fn = "handleMessageShow" -> handleMessageShow(T, data)
      [] callback.fn \in {"handleStateSaved", "handleSaveError", "handleSaveSuccess"} -> show(T)
      [] OTHER -> T

\* emit's forEach over listenersCopy from index i on, each call in its try
RECURSIVE DeliverFrom(_, _, _, _, _, _)
DeliverFrom(T, event, data, listenersCopy, i, depth) ==
    IF i > Len(listenersCopy) THEN T
    ELSE LET listener == listenersCopy[i]
             T1 == [T EXCEPT !.bus.calls = Append(@, [listener |-> listener, event |-> event,
                                                      depth |-> depth])]
         IN  DeliverFrom(Call(T1, listener.callback, data, depth), event, data,
                         listenersCopy, i + 1, depth)

\* emit(event, data) on the page's bus, nested in depth other emits; an emit
\* nested deeper than MaxNesting is left out and the call is "unfinished"
Deliver(T, event, data, depth) ==
    LET T1 == [T EXCEPT !.emitted = Append(@, [name |-> event, data |-> data])]
    IN  IF depth >= MaxNesting THEN [T EXCEPT !.bus.result = "unfinished"]
        ELSE IF event \notin DOMAIN T1.bus.events THEN T1
        ELSE DeliverFrom(T1, event, data, T1.bus.events[event], 1, depth)

\* ThemeToggle.destroy(), ResetButton.destroy() and SavedIndicator.destroy():
\* off is called with the methods themselves
destroy(T, object) ==
    CASE object = "themeToggle" ->
           [T EXCEPT !.bus = off(off(@, "theme:updated", Method("handleThemeUpdate"), "null"),
                                 "theme:set", Method("handleExternalThemeChange"), "null"),
                     !.components.themeToggle.element = FALSE]
      [] object = "resetButton" ->
           [T EXCEPT !.bus = off(@, "reset:request", Method("handleResetRequest"), "null"),
                     !.components.resetButton.element = FALSE]
      [] object = "savedIndicator" ->
           [T EXCEPT !.bus = off(off(off(off(@, "state:saved", Method("handleStateSaved"), "null"),
                                         "message:show", Method("handleMessageShow"), "null"),
                                     "save:error", Method("handleSaveError"), "null"),
                                 "save:success", Method("handleSaveSuccess"), "null"),
                     !.components.savedIndicator = [element |-> FALSE, isVisible |-> FALSE]]

(***************************************************************************)
(* SnowballApp.  errorPanel: the fixed "Application Failed to Start"       *)
(* element is in the document; errorIndicator: the saved indicator shows   *)
(* an error, for five seconds; failure: what the metadata document failed  *)
(* by, "none" for a document that is an array of images.                   *)
(***************************************************************************)
NewApp ==
    [isInitialized |-> FALSE, errorPanel |-> FALSE, errorIndicator |-> FALSE,
     failure |-> "none"]

\* the ways loadImages() throws before it hands the metadata to the image
\* manager: response not ok (404 or another status), response.json()
\* rejecting, a document that is no array, an empty array
MetadataFailures == {"missing", "not json", "not array", "empty"}

\* handleInitializationError(error)
handleInitializationError(a) == [a EXCEPT !.errorPanel = TRUE]

\* handleImageLoadError(error): savedIndicator.showError(error.message, 5000)
handleImageLoadError(a) == [a EXCEPT !.errorIndicator = TRUE]

\* the end of initialize() after `await this.loadImages()` has returned
FinishInitialize(S, a) ==
    [S |-> Emit(S, [name |-> "app:ready"]), app |-> [a EXCEPT !.isInitialized = TRUE]]

(***************************************************************************)
(* The steps of the page.                                                  *)
(***************************************************************************)
Fresh(b, sm, imgs) ==
    [browser |-> b, storageManager |-> sm, images |-> imgs,
     positions |-> << >>, sizes |-> << >>, containers |-> EmptyMap, loader |-> << >>,
     dragHandler |-> IdleDragHandler, resizeHandler |-> IdleResizeHandler,
     emitted |-> << >>]

\* SnowballApp.initialize() up to its fetch of the metadata document: the
\* storage manager probes localStorage and the state manager loads
Initialize ==
    /\ page = "unloaded"
    /\ LET sm == NewStorageManager(browser)
           ld == loadState(browser, sm, now)
       IN  /\ Becomes(Fresh(ld.b, ld.sm, ld.images))
           /\ theme' = loadTheme(browser, sm)
    /\ page' = "initialized"
    /\ returned' = "none"
    /\ UNCHANGED <<components, app, eventBus, twin, linkPreviewLoader, canvas, now, config, gestures>>

\* the metadata document arrives: imageManager.loadImages(imageData)
MetadataArrives ==
    /\ page = "initialized"
    /\ \E shuffled \in Shuffles(Metadata) : Becomes(loadImages(Cur, Metadata, shuffled))
    /\ page' = "running"
    /\ returned' = "none"
    /\ UNCHANGED <<components, app, eventBus, twin, linkPreviewLoader, canvas, theme, now, config, gestures>>

\* the fetch of the metadata document ends without an array of images:
\* loadImages() catches what it threw and returns, and initialize() goes on
MetadataFails ==
    /\ page = "initialized"
    /\ \E failure \in MetadataFailures :
          LET r == FinishInitialize(Cur, handleImageLoadError([app EXCEPT !.failure = failure]))
          IN  Becomes(r.S) /\ app' = r.app
    /\ page' = "running"
    /\ returned' = "none"
    /\ UNCHANGED <<components, eventBus, twin, linkPreviewLoader, canvas, theme, now, config, gestures>>

\* imageManager.loadImages has returned to loadImages() and that to
\* initialize(), with no other loop of the image manager waiting
AppReady ==
    /\ page = "running"
    /\ loader = << >>
    /\ ~app.isInitialized
    /\ LET r == FinishInitialize(Cur, app)
       IN  Becomes(r.S) /\ app' = r.app
    /\ returned' = "none"
    /\ UNCHANGED <<components, eventBus, twin, linkPreviewLoader, canvas, theme, page, now, config, gestures>>

\* the page is closed or reloaded: only the browser's storage remains
ClosePage ==
    /\ page # "unloaded"
    /\ page' = "unloaded"
    /\ Becomes(Fresh(browser, [isAvailable |-> FALSE, fallbackStorage |-> EmptyMap], EmptyMap))
    /\ returned' = "none"
    /\ theme' = "light"
    /\ gestures' = 0
    /\ UNCHANGED <<components, app, eventBus, twin, linkPreviewLoader, canvas, now, config>>

\* time passes
Tick ==
    /\ \E t \in Instants : t > now /\ now' = t
    /\ emitted' = << >>
    /\ returned' = "none"
    /\ UNCHANGED <<components, app, eventBus, twin, linkPreviewLoader, canvas, theme, page, browser, config, storageManager, images, positions, sizes,
                   containers, loader, dragHandler, resizeHandler, gestures>>

\* stateManager.setImageState(f, s) called from outside the image manager
SetImageStateStep(f, s) ==
    /\ page # "unloaded"
    /\ LET r == setImageState(browser, storageManager, images, f, s, now)
       IN  /\ Becomes([Cur EXCEPT !.browser = r.b, !.storageManager = r.sm,
                                  !.images = r.images, !.emitted = r.events])
           /\ returned' = IF r.ret THEN "true" ELSE "false"
    /\ UNCHANGED <<components, app, eventBus, twin, linkPreviewLoader, canvas, theme, page, now, config, gestures>>

SetImageStateCall == \E f \in Filenames, s \in ApiStates : SetImageStateStep(f, s)

\* stateManager.setTheme(value), called directly or on 'theme:changed'
SetThemeStep(value) ==
    /\ page # "unloaded"
    /\ LET r == setTheme(browser, storageManager, theme, value)
       IN  /\ theme' = r.theme
           /\ browser' = r.b
           /\ storageManager' = r.sm
           /\ emitted' = r.events
    /\ returned' = "none"
    /\ UNCHANGED <<components, app, eventBus, twin, linkPreviewLoader, canvas, page, now, config, images, positions, sizes, containers, loader,
                   dragHandler, resizeHandler, gestures>>

SetThemeCall == \E value \in ThemeArgs : SetThemeStep(value)

\* ResetButton.reset() with the image manager's handler of 'positions:reset'
\* called before the state manager's
ResetReloadFirst ==
    /\ page # "unloaded"
    /\ Cardinality(DOMAIN images) > 0
    /\ \E shuffled \in Shuffles(Metadata) :
          LET S0 == Emit(Cur, [name |-> "positions:reset"])
              S1 == IF page = "running" THEN loadImages(S0, Metadata, shuffled) ELSE S0
              r == resetAllStates(S1.browser, S1.storageManager)
          IN  Becomes([S1 EXCEPT !.browser = r.b, !.storageManager = r.sm,
                                 !.images = r.images, !.emitted = @ \o r.events])
    /\ returned' = "none"
    /\ UNCHANGED <<components, app, eventBus, twin, linkPreviewLoader, canvas, theme, page, now, config, gestures>>

\* ResetButton.reset(), confirmed: 'positions:reset' reaches the state
\* manager's handler first and the image manager's second, which reloads
\* the images if it has the metadata
Reset ==
    /\ page # "unloaded"
    /\ Cardinality(DOMAIN images) > 0
    /\ \E shuffled \in Shuffles(Metadata) :
          LET S0 == Emit(Cur, [name |-> "positions:reset"])
              r == resetAllStates(S0.browser, S0.storageManager)
              S1 == [S0 EXCEPT !.browser = r.b, !.storageManager = r.sm,
                               !.images = r.images, !.emitted = @ \o r.events]
          IN  Becomes(IF page = "running" THEN loadImages(S1, Metadata, shuffled) ELSE S1)
    /\ returned' = "none"
    /\ UNCHANGED <<components, app, eventBus, twin, linkPreviewLoader, canvas, theme, page, now, config, gestures>>

\* the delay of a waiting loadImagesProgressively loop ends
LoaderResume ==
    /\ page = "running"
    /\ \E k \in 1..Len(loader) :
          LET S0 == [Cur EXCEPT !.loader = SubSeq(@, 1, k - 1) \o SubSeq(@, k + 1, Len(@))]
          IN  Becomes(LoadFrom(S0, loader[k].metadata, loader[k].hasSavedStates, loader[k].i))
    /\ returned' = "none"
    /\ UNCHANGED <<components, app, eventBus, twin, linkPreviewLoader, canvas, theme, page, now, config, gestures>>

\* mousedown or touchstart on the body of a tile
PointerDownBody ==
    /\ page = "running"
    /\ dragHandler.isDragging \/ gestures < MaxGestures
    /\ \E f \in DOMAIN containers : Becomes(startDrag(Cur, f))
    /\ gestures' = IF dragHandler.isDragging THEN gestures ELSE gestures + 1
    /\ returned' = "none"
    /\ UNCHANGED <<components, app, eventBus, twin, linkPreviewLoader, canvas, theme, page, now, config>>

\* mousedown or touchstart on the resize handle of a tile
PointerDownHandle ==
    /\ page = "running"
    /\ resizeHandler.isResizing \/ gestures < MaxGestures
    /\ \E f \in DOMAIN containers : Becomes(startResize(Cur, f))
    /\ gestures' = IF resizeHandler.isResizing THEN gestures ELSE gestures + 1
    /\ returned' = "none"
    /\ UNCHANGED <<components, app, eventBus, twin, linkPreviewLoader, canvas, theme, page, now, config>>

\* mousemove or touchmove on the document: the drag handler's listener, then
\* the resize handler's
PointerMove ==
    /\ page = "running"
    /\ dragHandler.isDragging \/ resizeHandler.isResizing
    /\ \E d \in DragDeltas, e \in ResizeDeltas :
          /\ LET S1 == IF dragHandler.isDragging
                       THEN updateDragPosition(Cur, d[1], d[2]) ELSE Cur
                 S2 == IF resizeHandler.isResizing
                       THEN updateResizeSize(S1, config, e[1], e[2]) ELSE S1
             IN  Becomes(S2)
    /\ returned' = "none"
    /\ UNCHANGED <<components, app, eventBus, twin, linkPreviewLoader, canvas, theme, page, now, config, gestures>>

\* mouseup or touchend on the document: the drag handler's listener, then
\* the resize handler's
PointerUp ==
    /\ page = "running"
    /\ dragHandler.isDragging \/ resizeHandler.isResizing
    /\ LET S1 == endDrag(Cur, now)
       IN  \E finalSize \in FinalSizes(S1) : Becomes(endResize(S1, finalSize, now))
    /\ returned' = "none"
    /\ UNCHANGED <<components, app, eventBus, twin, linkPreviewLoader, canvas, theme, page, now, config, gestures>>

\* the stored items a page may be opened over
NotAMap ==
    {imageStatesKey :> [raw |-> "not json"],
     imageStatesKey :> JsonStringify(Num(7)),
     imageStatesKey :> JsonStringify([ty |-> "null"])}

StoredMaps(choice) ==
    {EmptyMap} \cup {imageStatesKey :> JsonStringify(Obj(m)) : m \in RecordMaps(choice)}

Unusable ==
    [localStorage |-> EmptyMap, usable |-> FALSE, room |-> 0, oldEntries |-> 0,
     denied |-> FALSE]

\* browsers for the sessions of dragging and resizing: room for every record
LayoutBrowsers ==
    {Unusable} \cup
    [localStorage : StoredMaps([f \in Filenames |-> ValidRecords(f)]),
     usable : {TRUE}, room : {3}, oldEntries : {0}, denied : {FALSE}]

\* browsers for the sessions on the state store
StoreBrowsers ==
    {Unusable} \cup
    {[localStorage |-> ls, usable |-> TRUE, room |-> q[1], oldEntries |-> q[2],
      denied |-> FALSE] :
        ls \in NotAMap \cup StoredMaps([f \in Filenames |-> StoreRecords(f)]),
        q \in {<<3, 0>>, <<1, 0>>, <<1, 1>>}}

InitWith(browsers, configs) ==
    /\ page = "unloaded"
    /\ canvas = ContainerWidth
    /\ now = 2
    /\ browser \in browsers
    /\ config \in configs
    /\ storageManager = [isAvailable |-> FALSE, fallbackStorage |-> EmptyMap]
    /\ images = EmptyMap
    /\ theme = "light"
    /\ positions = << >>
    /\ sizes = << >>
    /\ containers = EmptyMap
    /\ loader = << >>
    /\ dragHandler = IdleDragHandler
    /\ resizeHandler = IdleResizeHandler
    /\ emitted = << >>
    /\ returned = "none"
    /\ gestures = 0
    /\ eventBus = NewEventBus
    /\ twin = NewTwin
    /\ app = NewApp
    /\ components = NewComponents("light")
    /\ linkPreviewLoader = NewLinkPreviewLoader("page")

\* sessions of dragging and resizing
Init == InitWith(LayoutBrowsers, Configs)

Next ==
    \/ Initialize
    \/ MetadataArrives
    \/ Reset
    \/ LoaderResume
    \/ PointerDownBody
    \/ PointerDownHandle
    \/ PointerMove
    \/ PointerUp

Spec == Init /\ [][Next]_vars

\* sessions on the state store: writes, reloads and the passing of time
InitStore == InitWith(StoreBrowsers, {DefaultConfig})

NextStore ==
    \/ Initialize
    \/ ClosePage
    \/ Tick
    \/ SetImageStateCall
    \/ Reset

SpecStore == InitStore /\ [][NextStore]_vars

\* the start of the application: initialize() to its end.  The delay of the
\* loading loop always ends and the code after an await always runs
InitStartup == InitWith(LayoutBrowsers, {DefaultConfig})

NextStartup ==
    \/ Initialize
    \/ MetadataArrives
    \/ MetadataFails
    \/ LoaderResume
    \/ AppReady

SpecStartup ==
    InitStartup /\ [][NextStartup]_vars /\ WF_vars(LoaderResume) /\ WF_vars(AppReady)

\* the items a page may find under theme: what setTheme writes, and what an
\* older version of the page or another script may have left
ThemeItems ==
    {[raw |-> "dark"], [raw |-> "light"], [raw |-> "blue"], [str |-> "dark"],
     JsonStringify(Num(7)), [lit |-> "null"]}

\* browsers for the sessions on the theme
ThemeBrowsers ==
    {Unusable} \cup
    {[localStorage |-> ls @@ th, usable |-> TRUE, room |-> 3, oldEntries |-> 0,
      denied |-> FALSE] :
        ls \in StoredMaps([f \in Filenames |-> IF f = "a" THEN ValidRecords(f) ELSE {}]),
        th \in {EmptyMap} \cup {themeKey :> item : item \in ThemeItems}}

\* sessions on the theme: theme changes, resets and reloads
InitTheme == InitWith(ThemeBrowsers, {DefaultConfig})

NextTheme ==
    \/ Initialize
    \/ MetadataArrives
    \/ LoaderResume
    \/ ClosePage
    \/ SetThemeCall
    \/ SetImageStateCall
    \/ Reset

SpecTheme == InitTheme /\ [][NextTheme]_vars

(***************************************************************************)
(* The placement rule applied alone: the scaled sizes and grid positions   *)
(* that calculateScaledSizes and calculatePosition give the tiles of a     *)
(* load without saved state, index after index, kept in sizes and          *)
(* positions.                                                              *)
(***************************************************************************)
MaxTiles == 3

CanvasWidths == {400, 800}

\* scaled sizes of images
GridSizes == {<<100, 50>>, <<180, 50>>, <<50, 50>>, <<250, 250>>}

\* the metadata document of the scenario, and another
ScenarioMetadata == << <<"a.png", <<1000, 1000>> >>, <<"b.png", <<100, 100>> >> >>
GridMetadata == {ScenarioMetadata,
                 << <<"a.png", <<1700, 400>> >>, <<"b.png", <<100, 100>> >> >>,
                 << <<"a.png", <<800, 750>> >>, <<"b.png", <<2001, 1601>> >> >>,
                 << <<"a.png", <<2000, 1200>> >>, <<"b.png", <<101, 75>> >> >>}

\* calculateScaledSizes(metadata), then calculatePosition(this.sizes[i], i)
\* for each image in turn
PlaceMetadataStep(metadata) ==
    /\ page = "grid"
    /\ positions = << >>
    /\ sizes' = calculateScaledSizesIn(canvas, metadata)
    /\ positions' = [k \in 1..Len(metadata) |->
                        calculatePositionIn(canvas, sizes'[k], k - 1)]
    /\ UNCHANGED <<components, app, eventBus, twin, linkPreviewLoader, page, canvas, now, browser, config, storageManager, images, theme,
                   containers, loader, dragHandler, resizeHandler, emitted, returned,
                   gestures>>

PlaceMetadata == \E metadata \in GridMetadata : PlaceMetadataStep(metadata)

\* calculatePosition(size, index) for one more tile, of any of the sizes
PlaceTile ==
    /\ page = "grid"
    /\ Len(positions) < MaxTiles
    /\ \E size \in GridSizes :
          /\ positions' = Append(positions, calculatePositionIn(canvas, size, Len(positions)))
          /\ sizes' = Append(sizes, size)
    /\ UNCHANGED <<components, app, eventBus, twin, linkPreviewLoader, page, canvas, now, browser, config, storageManager, images, theme,
                   containers, loader, dragHandler, resizeHandler, emitted, returned,
                   gestures>>

InitGrid ==
    /\ page = "grid"
    /\ canvas \in CanvasWidths
    /\ now = 2
    /\ browser = Unusable
    /\ config = DefaultConfig
    /\ storageManager = [isAvailable |-> FALSE, fallbackStorage |-> EmptyMap]
    /\ images = EmptyMap
    /\ theme = "light"
    /\ positions = << >>
    /\ sizes = << >>
    /\ containers = EmptyMap
    /\ loader = << >>
    /\ dragHandler = IdleDragHandler
    /\ resizeHandler = IdleResizeHandler
    /\ emitted = << >>
    /\ returned = "none"
    /\ gestures = 0
    /\ eventBus = NewEventBus
    /\ twin = NewTwin
    /\ app = NewApp
    /\ components = NewComponents("light")
    /\ linkPreviewLoader = NewLinkPreviewLoader("page")

NextGrid ==
    \/ PlaceMetadata
    \/ PlaceTile

SpecGrid == InitGrid /\ [][NextGrid]_vars

\* a part of the program taken alone, over one of the given browsers
InitAlone(part, browsers) ==
    /\ page = part
    /\ canvas = ContainerWidth
    /\ now = 2
    /\ browser \in browsers
    /\ config = DefaultConfig
    /\ storageManager = NewStorageManager(browser)
    /\ images = EmptyMap
    /\ theme = "light"
    /\ positions = << >>
    /\ sizes = << >>
    /\ containers = EmptyMap
    /\ loader = << >>
    /\ dragHandler = IdleDragHandler
    /\ resizeHandler = IdleResizeHandler
    /\ emitted = << >>
    /\ gestures = 0
    /\ eventBus = NewEventBus
    /\ twin = NewTwin
    /\ app = NewApp
    /\ components = NewComponents("light")

(***************************************************************************)
(* The event bus taken alone: subscriptions, removals and emits, the       *)
(* listeners being the functions above.                                    *)
(***************************************************************************)
MaxListeners == 3
MaxOnce == 2

Events == {"e", "x"}

\* the (event, callback, context) that on and off are called with; the
\* context is null or an object, "ctx"
Subscriptions ==
    {<<"e", Fn(name), "null">> : name \in Functions}
        \cup {<<"e", Fn("f"), "ctx">>, <<"x", Fn("f"), "null">>}

\* the (event, callback, context) that once is called with
OnceSubscriptions ==
    {<<"e", Fn("f"), "null">>, <<"e", Fn("f"), "ctx">>, <<"e", Fn("again"), "null">>}

\* the listeners there are, over all events
Count(B) == Len(ListenersOf(B, "e")) + Len(ListenersOf(B, "x"))

\* the bus as a call from outside finds it
Quiet == [eventBus EXCEPT !.calls = << >>, !.result = "none"]

\* on(event, callback, context)
OnCall ==
    /\ page = "bus"
    /\ Count(eventBus) < MaxListeners
    /\ \E s \in Subscriptions : eventBus' = on(Quiet, s[1], s[2], s[3])
    /\ UNCHANGED <<components, app, twin, linkPreviewLoader, page, canvas, now, browser, config, storageManager,
                   images, theme, positions, sizes, containers, loader, dragHandler,
                   resizeHandler, emitted, returned, gestures>>

\* once(event, callback, context)
OnceCall ==
    /\ page = "bus"
    /\ Count(eventBus) < MaxListeners
    /\ Len(eventBus.onceCalls) < MaxOnce
    /\ \E s \in OnceSubscriptions : eventBus' = once(Quiet, s[1], s[2], s[3])
    /\ UNCHANGED <<components, app, twin, linkPreviewLoader, page, canvas, now, browser, config, storageManager,
                   images, theme, positions, sizes, containers, loader, dragHandler,
                   resizeHandler, emitted, returned, gestures>>

\* off(event, callback, context), called directly or through the function
\* that on returned
OffStep(event, callback, context) ==
    /\ page = "bus"
    /\ eventBus' = off(Quiet, event, callback, context)
    /\ UNCHANGED <<components, app, twin, linkPreviewLoader, page, canvas, now, browser, config, storageManager,
                   images, theme, positions, sizes, containers, loader, dragHandler,
                   resizeHandler, emitted, returned, gestures>>

\* what off is called with: any subscription, and for each listener there is
\* its own callback with its context (the function on returned) and with none
OffArgs ==
    Subscriptions \cup
    UNION {{<<e, ListenersOf(eventBus, e)[i].callback, c>> :
               i \in DOMAIN ListenersOf(eventBus, e), c \in {"null", "ctx"}} : e \in Events}

OffCall == \E s \in OffArgs : OffStep(s[1], s[2], s[3])

\* emit(event, data)
EmitStep(event) ==
    /\ page = "bus"
    /\ LET r == emit(Quiet, event, 0)
       IN  /\ Count(r.bus) <= MaxListeners
           /\ eventBus' = [r.bus EXCEPT !.result = IF r.threw THEN "threw" ELSE "returned"]
    /\ UNCHANGED <<components, app, twin, linkPreviewLoader, page, canvas, now, browser, config, storageManager,
                   images, theme, positions, sizes, containers, loader, dragHandler,
                   resizeHandler, emitted, returned, gestures>>

EmitCall == \E event \in Events : EmitStep(event)

InitBus ==
    /\ InitAlone("bus", {Unusable})
    /\ returned = "none"
    /\ linkPreviewLoader = NewLinkPreviewLoader("page")

NextBus ==
    \/ OnCall
    \/ OffCall
    \/ EmitCall

SpecBus == InitBus /\ [][NextBus]_vars

\* the event bus with once
NextOnce ==
    \/ OnCall
    \/ OnceCall
    \/ OffCall
    \/ EmitCall

SpecOnce == InitBus /\ [][NextOnce]_vars

(***************************************************************************)
(* The storage manager taken alone: calls of get, set, remove, has, clear  *)
(* and keys on a manager over the browser's localStorage, and the same     *)
(* calls on a second manager whose localStorage was unusable when it was   *)
(* constructed.  returned is the last call and its value, or that it       *)
(* threw.                                                                  *)
(***************************************************************************)
\* an object that JSON.stringify rejects
Circular == [ty |-> "circular"]

StorageKeyNames == {"k", "j"}

StorageValues ==
    {Str("dark"), Str("7"), Num(7), Bool(TRUE), Circular,
     Obj("a" :> Rec(<<10, 10>>, <<100, 50>>, 1)),
     Obj(("a" :> Rec(<<10, 10>>, <<100, 50>>, 1)) @@ ("b" :> Rec(<<130, 10>>, <<100, 50>>, 2))),
     Obj(("a" :> Rec(<<10, 10>>, <<100, 50>>, 1)) @@ ("b" :> Rec(<<130, 10>>, <<100, 50>>, 2))
         @@ ("c" :> Rec(<<10, 80>>, <<410, 10>>, 2)))}

\* get(key, defaultValue), set(key, value), remove(key), has(key), clear()
\* and keys()
StorageCalls ==
    [op : {"set"}, key : StorageKeyNames, value : StorageValues]
    \cup [op : {"get"}, key : StorageKeyNames, value : {[ty |-> "null"], Num(7)}]
    \cup [op : {"remove", "has"}, key : StorageKeyNames, value : {[ty |-> "null"]}]
    \cup [op : {"clear", "keys"}, key : {"k"}, value : {[ty |-> "null"]}]

\* the call c on the manager sm over the browser b: both afterwards and the
\* value returned
StorageApply(b, sm, c) ==
    CASE c.op = "get" ->
           [b |-> b, sm |-> sm, ret |-> StorageGet(b, sm, c.key, c.value)]
      [] c.op = "set" ->
           LET r == StorageSet(b, sm, c.key, c.value)
           IN  [b |-> r.b, sm |-> r.sm, ret |-> Bool(r.ok)]
      [] c.op = "remove" ->
           LET r == StorageRemove(b, sm, c.key)
           IN  [b |-> r.b, sm |-> r.sm, ret |-> Bool(r.ok)]
      [] c.op = "has" ->
           [b |-> b, sm |-> sm, ret |-> Bool(StorageHas(b, sm, c.key))]
      [] c.op = "clear" ->
           LET r == StorageClear(b, sm)
           IN  [b |-> r.b, sm |-> r.sm, ret |-> Bool(r.ok)]
      [] c.op = "keys" ->
           [b |-> b, sm |-> sm, ret |-> [ty |-> "keys", keys |-> StorageKeys(b, sm)]]

StorageStep(c) ==
    /\ page = "storage"
    /\ LET r == StorageApply(browser, storageManager, c)
           t == StorageApply(Unusable, twin.storageManager, c)
       IN  /\ browser' = r.b
           /\ storageManager' = r.sm
           /\ returned' = [op |-> c.op, key |-> c.key, value |-> c.value, ret |-> r.ret,
                           writes |-> IF c.op = "set"
                                      THEN StorageSet(browser, storageManager,
                                                      c.key, c.value).writes
                                      ELSE 0]
           /\ twin' = [storageManager |-> t.sm, returned |-> t.ret]
    /\ UNCHANGED <<components, app, eventBus, linkPreviewLoader, page, canvas, theme, now, config, images,
                   positions, sizes, containers, loader, dragHandler, resizeHandler,
                   emitted, gestures>>

StorageCall == \E c \in StorageCalls : StorageStep(c)

\* localStorage unusable from the start, usable, or usable when probed and
\* throwing since; with room for one record or for three, and with or
\* without an entry that has an old timestamp
StorageBrowsers ==
    {Unusable} \cup
    [localStorage : {EmptyMap}, usable : {TRUE}, room : {1, 3}, oldEntries : {0, 1},
     denied : BOOLEAN]

InitStorage ==
    /\ InitAlone("storage", StorageBrowsers)
    /\ linkPreviewLoader = NewLinkPreviewLoader("page")
    /\ returned = [op |-> "none", key |-> "k", value |-> [ty |-> "null"],
                   ret |-> [ty |-> "null"], writes |-> 0]

NextStorage == StorageCall

SpecStorage == InitStorage /\ [][NextStorage]_vars

(***************************************************************************)
(* The link preview loader taken alone: calls of fetchLinkPreview, the     *)
(* answers of the network and the timer of the race.  A timer that was set *)
(* fires; no request has to end.                                           *)
(***************************************************************************)
MaxCalls == 3

Urls == {"https://u", "https://v"}

\* the page calls fetchLinkPreview(url)
FetchStep(url) ==
    /\ page = "preview"
    /\ Len(linkPreviewLoader.calls) < MaxCalls
    /\ linkPreviewLoader' = fetchLinkPreview(linkPreviewLoader, url)

FetchCall ==
    /\ \E url \in Urls : FetchStep(url)
    /\ UNCHANGED <<components, app, eventBus, twin, page, canvas, now, browser, config, storageManager,
                   images, theme, positions, sizes, containers, loader, dragHandler,
                   resizeHandler, emitted, returned, gestures>>

\* the request of a call that waits for a metadata API ends
MetadataResponds ==
    /\ page = "preview"
    /\ \E c \in DOMAIN linkPreviewLoader.calls, useful \in BOOLEAN :
          /\ linkPreviewLoader.calls[c].pc = "metadata"
          /\ linkPreviewLoader' = MetadataResponse(linkPreviewLoader, c, useful)
    /\ UNCHANGED <<components, app, eventBus, twin, page, canvas, now, browser, config, storageManager,
                   images, theme, positions, sizes, containers, loader, dragHandler,
                   resizeHandler, emitted, returned, gestures>>

\* the timer of the race fires while a call waits for its metadata
TimerFires ==
    /\ page = "preview"
    /\ \E c \in DOMAIN linkPreviewLoader.calls :
          /\ linkPreviewLoader.calls[c].pc = "metadata"
          /\ linkPreviewLoader' = CatchMetadataError(linkPreviewLoader, c)
    /\ UNCHANGED <<components, app, eventBus, twin, page, canvas, now, browser, config, storageManager,
                   images, theme, positions, sizes, containers, loader, dragHandler,
                   resizeHandler, emitted, returned, gestures>>

\* the HEAD request for the favicon of a call ends
FaviconResponds ==
    /\ page = "preview"
    /\ \E c \in DOMAIN linkPreviewLoader.calls :
          /\ linkPreviewLoader.calls[c].pc = "favicon"
          /\ linkPreviewLoader' = FaviconResponse(linkPreviewLoader, c)
    /\ UNCHANGED <<components, app, eventBus, twin, page, canvas, now, browser, config, storageManager,
                   images, theme, positions, sizes, containers, loader, dragHandler,
                   resizeHandler, emitted, returned, gestures>>

InitPreview ==
    /\ InitAlone("preview", {Unusable})
    /\ returned = "none"
    /\ linkPreviewLoader \in {NewLinkPreviewLoader("page"), NewLinkPreviewLoader("core")}

NextPreview ==
    \/ FetchCall
    \/ MetadataResponds
    \/ TimerFires
    \/ FaviconResponds

SpecPreview == InitPreview /\ [][NextPreview]_vars /\ WF_vars(TimerFires)

(***************************************************************************)
(* The theme toggle and the state manager on the bus ("toggle"), and the   *)
(* three components with their destroy and emits from other modules        *)
(* ("components").  No image has a saved record.                           *)
(***************************************************************************)
CurT ==
    [bus |-> Quiet, browser |-> browser, storageManager |-> storageManager,
     images |-> images, theme |-> theme, components |-> components, emitted |-> << >>]

BecomesT(T) ==
    /\ eventBus' = T.bus
    /\ browser' = T.browser
    /\ storageManager' = T.storageManager
    /\ images' = T.images
    /\ theme' = T.theme
    /\ components' = T.components
    /\ emitted' = T.emitted
    /\ UNCHANGED <<app, twin, linkPreviewLoader, page, canvas, now, config, positions, sizes,
                   containers, loader, dragHandler, resizeHandler, returned, gestures>>

\* a click on the toggle, or Enter or space: ThemeToggle.toggle()
ToggleCall ==
    /\ page \in {"toggle", "components"}
    /\ BecomesT(toggle(CurT))

\* ThemeToggle.setTheme(theme)
ToggleSetThemeCall ==
    /\ page \in {"toggle", "components"}
    /\ \E value \in ThemeArgs : BecomesT(ThemeToggleSetTheme(CurT, value, 0))

\* the payloads of 'theme:set'
ThemeSetData ==
    {NullData,
     Obj("theme" :> Str("dark")),
     Obj(("theme" :> Str("dark")) @@ ("source" :> Str("settings"))),
     Obj(("theme" :> Str("light")) @@ ("source" :> Str("settings"))),
     Obj(("theme" :> Str("blue")) @@ ("source" :> Str("settings"))),
     Obj(("theme" :> Str("dark")) @@ ("source" :> Str("ThemeToggle")))}

\* another module emits 'theme:set'
ThemeSetEvent ==
    /\ page \in {"toggle", "components"}
    /\ \E data \in ThemeSetData : BecomesT(Deliver(CurT, "theme:set", data, 0))

\* StateManager.setTheme(theme) called by another module
StoreSetThemeCall ==
    /\ page \in {"toggle", "components"}
    /\ \E value \in ThemeArgs : BecomesT(StateManagerSetTheme(CurT, value, 0))

\* destroy() of one of the components
DestroyCall ==
    /\ page = "components"
    /\ \E object \in DOMAIN components : BecomesT(destroy(CurT, object))

\* the events that the components listen to, emitted by another module
OutsideEvents ==
    {<<"theme:updated", Str("dark")>>, <<"theme:updated", Str("light")>>,
     <<"theme:set", Obj(("theme" :> Str("dark")) @@ ("source" :> Str("settings")))>>,
     <<"reset:request", NullData>>,
     <<"state:saved", Obj("filename" :> Str("a"))>>,
     <<"message:show", Obj(("message" :> Str("Saved")) @@ ("type" :> Str("info")))>>,
     <<"message:show", NullData>>}

OutsideEmit ==
    /\ page = "components"
    /\ \E e \in OutsideEvents : BecomesT(Deliver(CurT, e[1], e[2], 0))

\* the timer of SavedIndicator.show fires: hide()
IndicatorHides ==
    /\ page = "components"
    /\ components.savedIndicator.element /\ components.savedIndicator.isVisible
    /\ BecomesT([CurT EXCEPT !.components.savedIndicator.isVisible = FALSE])

\* what the page may find under theme, in a localStorage that is unusable,
\* usable, or usable when probed and throwing since
ToggleBrowsers ==
    {Unusable} \cup
    {[localStorage |-> th, usable |-> TRUE, room |-> 3, oldEntries |-> 0, denied |-> d] :
        th \in {EmptyMap} \cup {themeKey :> item : item \in ThemeItems},
        d \in BOOLEAN}

\* the page after initialize(): the state manager has loaded the theme and
\* the components are constructed and rendered
InitComponents(part) ==
    /\ page = part
    /\ canvas = ContainerWidth
    /\ now = 2
    /\ browser \in ToggleBrowsers
    /\ config = DefaultConfig
    /\ storageManager = NewStorageManager(browser)
    /\ images = EmptyMap
    /\ theme = loadTheme(browser, storageManager)
    /\ positions = << >>
    /\ sizes = << >>
    /\ containers = EmptyMap
    /\ loader = << >>
    /\ dragHandler = IdleDragHandler
    /\ resizeHandler = IdleResizeHandler
    /\ emitted = << >>
    /\ returned = "none"
    /\ gestures = 0
    /\ eventBus = ComponentsBus
    /\ twin = NewTwin
    /\ linkPreviewLoader = NewLinkPreviewLoader("page")
    /\ app = NewApp
    /\ components = NewComponents(theme)

InitToggle == InitComponents("toggle")

NextToggle ==
    \/ ToggleCall
    \/ ToggleSetThemeCall
    \/ ThemeSetEvent
    \/ StoreSetThemeCall

SpecToggle == InitToggle /\ [][NextToggle]_vars

InitDestroy == InitComponents("components")

NextDestroy ==
    \/ ToggleCall
    \/ ToggleSetThemeCall
    \/ ThemeSetEvent
    \/ StoreSetThemeCall
    \/ DestroyCall
    \/ OutsideEmit
    \/ IndicatorHides

SpecDestroy == InitDestroy /\ [][NextDestroy]_vars

(***************************************************************************)
(* Properties of the state store, checked under SpecStore.                 *)
(***************************************************************************)
\* the validity invariant of a placement record: a position of two finite
\* numbers and a size of two finite, strictly positive numbers
WellFormed(r) ==
    /\ {"position", "size"} \subseteq DOMAIN r
    /\ Len(r.position) = 2
    /\ \A i \in 1..2 : r.position[i] # NonFinite
    /\ Len(r.size) = 2
    /\ \A i \in 1..2 : r.size[i] # NonFinite /\ r.size[i] > 0

\* r carries a timestamp older than the expiry horizon at the instant t
Older(r, t) == "timestamp" \in DOMAIN r /\ r.timestamp < t - stateExpiryDays

\* the records in the text that b holds under imageStates
StoredRecords(b) ==
    IF b.usable /\ imageStatesKey \in DOMAIN b.localStorage
                /\ "obj" \in DOMAIN b.localStorage[imageStatesKey]
    THEN LET text == b.localStorage[imageStatesKey].obj
         IN  [f \in DOMAIN text |-> ParseRecord(text[f])]
    ELSE EmptyMap

\* the map a state store constructed now over the same storage would read
PersistedMap ==
    LET v == StorageGet(browser, storageManager, imageStatesKey, Obj(EmptyMap))
    IN  IF v.ty = "object" THEN v.m ELSE EmptyMap

\* the filenames the last step emitted 'state:saved' for
SavedNow == {emitted[i].filename : i \in {j \in DOMAIN emitted : emitted[j].name = "state:saved"}}

\* C6 (as claimed): after setImageState(f, s) with a valid s, a state store
\* constructed over the same storage returns for f a record with the position
\* and size of s.
C6_RoundTrip ==
    returned = "true" =>
        \A f \in SavedNow :
            LET reloaded == loadState(browser, storageManager, now).images
            IN  /\ f \in DOMAIN reloaded
                /\ reloaded[f].position = images[f].position
                /\ reloaded[f].size = images[f].size

\* C7: setImageState(f, s) with an s that is not well-formed returns false,
\* emits nothing and leaves the map and the storage as they were.
C7_InvalidRejected ==
    [][/\ \A f \in Filenames, s \in ApiStates :
             ~WellFormed(s) =>
                 ~setImageState(browser, storageManager, images, f, s, now).ret
       /\ returned' = "false" =>
             /\ emitted' = << >>
             /\ images' = images
             /\ browser' = browser
             /\ storageManager' = storageManager]_vars

\* C7 witness: a call was rejected while the map held records
C7_Witness == returned = "false" /\ "a" \in DOMAIN images /\ "b" \in DOMAIN images

C9_PersistedEqualsMemory ==
    (returned = "true" /\ SavedNow # {}) => PersistedMap = images

\* C10 (as claimed): after a load no record older than the expiry horizon is in
\* the map, every well-formed stored record that is not older is in it
\* unchanged, and if any was pruned the storage holds the pruned map.
C10_ExpiredPruned ==
    [][Initialize =>
          LET stored == StoredRecords(browser)
          IN  /\ \A f \in DOMAIN images' : ~Older(images'[f], now)
              /\ \A f \in DOMAIN stored :
                    (WellFormed(stored[f]) /\ ~Older(stored[f], now)) =>
                        (f \in DOMAIN images' /\ images'[f] = stored[f])
              /\ (\E f \in DOMAIN stored : WellFormed(stored[f]) /\ Older(stored[f], now)) =>
                    StoredRecords(browser') = images']_vars

(***************************************************************************)
(* Properties of dragging and resizing, checked under Spec.                *)
(***************************************************************************)
\* the events of the given name that the last step emitted
Emitted(name) == {emitted[i] : i \in {j \in DOMAIN emitted : emitted[j].name = name}}

\* the position and size a tile of the document is shown at
Shown(el) ==
    [position |-> <<ParseInt(el.left), ParseInt(el.top)>>, size |-> RenderedSize(el)]

\* the buffered boxes of two tiles do not intersect: on one axis at least the
\* gap is minSpacing or more
Apart(e1, e2) ==
    \/ RLe(RAdd(RAdd(e2.left, e2.width), R(minSpacing)), e1.left)
    \/ RLe(RAdd(RAdd(e1.left, e1.width), R(minSpacing)), e2.left)
    \/ RLe(RAdd(RAdd(e2.top, e2.height), R(minSpacing)), e1.top)
    \/ RLe(RAdd(RAdd(e1.top, e1.height), R(minSpacing)), e2.top)

TilesApart ==
    \A f, g \in DOMAIN containers : f # g => Apart(containers[f], containers[g])

ReleasedOverAnother ==
    /\ dragHandler.isDragging
    /\ dragHandler.currentContainer.kind = "attached"
    /\ LET el == containers[dragHandler.currentContainer.file]
       IN  wouldOverlap(Cur, R(ParseInt(el.left)), R(ParseInt(el.top)),
                        el.width, el.height, el.index) = "true"

C3_CommitKeyedByFilename ==
    \A e \in Emitted("drag:end") \cup Emitted("resize:end") :
        \A f \in DOMAIN containers :
            containers[f].index = e.index =>
                /\ f \in DOMAIN images
                /\ images[f].position = Shown(containers[f]).position
                /\ images[f].size = Shown(containers[f]).size

\* C4 (as claimed): the size every 'resize:end' carries is within
\* [minSize, maxSize] on both axes.
C4_CommittedSizeWithinBounds ==
    \A e \in Emitted("resize:end") :
        \A i \in 1..2 : minSize <= e.size[i] /\ e.size[i] <= maxSize

\* C5: with preserveAspectRatio on, the size of every 'resize:move' has the
\* ratio of the size the resize started from:
\* width * startHeight = height * startWidth.
C5_MovePreservesAspectRatio ==
    config.preserveAspectRatio =>
        \A e \in Emitted("resize:move") :
            RMul(e.size[1], R(resizeHandler.initialSize[2])) =
                RMul(e.size[2], R(resizeHandler.initialSize[1]))

\* C5 witness: a 'resize:move' whose width is not the start width plus the
\* pointer's offset, the clamp or the grid having changed it
C5_Witness ==
    /\ config.preserveAspectRatio
    /\ \E e \in Emitted("resize:move") :
          e.size[1] \notin {R(resizeHandler.initialSize[1] + d[1]) : d \in ResizeDeltas}

(***************************************************************************)
(* Properties of the theme and of the reset, checked under SpecTheme.      *)
(***************************************************************************)
\* what a value normalizes to: 'dark' is dark, everything else light
Normalized(value) == IF value = Str("dark") THEN "dark" ELSE "light"

\* the theme a state store would read from the storage as it is now
PersistedTheme == StorageGet(browser, storageManager, themeKey, Str("light"))

\* C11: setTheme(t) stores the theme and emits 'theme:updated', once, if the
\* normalized t differs from the current theme, and otherwise emits nothing and
\* writes nothing; so the second of two consecutive setTheme('dark') is silent.
C11_ThemeUpdatedIffChanged ==
    [][\A value \in ThemeArgs :
          SetThemeStep(value) =>
              IF Normalized(value) # theme
              THEN /\ theme' = Normalized(value)
                   /\ emitted' = << [name |-> "theme:updated", theme |-> Normalized(value)] >>
                   /\ PersistedTheme' = Str(Normalized(value))
              ELSE /\ theme' = theme
                   /\ emitted' = << >>
                   /\ browser' = browser
                   /\ storageManager' = storageManager]_vars

\* C11 witness: a setTheme changed the theme back to light and localStorage
\* holds it
C11_Witness ==
    /\ Emitted("theme:updated") # {}
    /\ theme = "light"
    /\ browser.usable
    /\ themeKey \in DOMAIN browser.localStorage
    /\ browser.localStorage[themeKey] = [raw |-> "light"]

\* the text under theme is that of 'dark', bare or in quotes
StoredDark(b) ==
    /\ b.usable
    /\ themeKey \in DOMAIN b.localStorage
    /\ b.localStorage[themeKey] \in {[raw |-> "dark"], [str |-> "dark"]}

\* C12: the theme is 'light' or 'dark' in every state; a load reads 'dark' only
\* from a stored 'dark' and 'light' from anything else or nothing, and setTheme
\* takes every value other than 'dark' as 'light'.
C12_ThemeLightOrDark ==
    [][/\ theme' \in {"light", "dark"}
       /\ Initialize => theme' = IF StoredDark(browser) THEN "dark" ELSE "light"
       /\ \A value \in ThemeArgs : SetThemeStep(value) => theme' = Normalized(value)]_vars

\* C12 witness: a load found a theme that is neither and took it as light
C12_Witness ==
    /\ page = "initialized"
    /\ theme = "light"
    /\ browser.usable
    /\ themeKey \in DOMAIN browser.localStorage
    /\ browser.localStorage[themeKey] = [raw |-> "blue"]

\* the item under theme in localStorage and the entry in the fallback
ThemeKept(b, sm) ==
    <<IF themeKey \in DOMAIN b.localStorage THEN <<b.localStorage[themeKey]>> ELSE << >>,
      IF themeKey \in DOMAIN sm.fallbackStorage THEN <<sm.fallbackStorage[themeKey]>> ELSE << >> >>

\* C13: a reset empties the map, removes imageStates from the storage so that
\* a reload reads no record, emits 'state:reset' exactly once and leaves the
\* theme as it was in memory and in the storage.
C13_ResetClearsPlacementsOnly ==
    [][(Emitted("positions:reset")' # {} /\ Reset) =>
          /\ images' = EmptyMap
          /\ imageStatesKey \notin DOMAIN browser'.localStorage
          /\ imageStatesKey \notin DOMAIN storageManager'.fallbackStorage
          /\ loadState(browser', NewStorageManager(browser'), now).images = EmptyMap
          /\ Cardinality({i \in DOMAIN emitted' : emitted'[i].name = "state:reset"}) = 1
          /\ theme' = theme
          /\ ThemeKept(browser', storageManager') = ThemeKept(browser, storageManager)]_vars

\* C13 witness: a reset was made while the theme was dark and stored, and
\* imageStates had been in localStorage
C13_Witness ==
    /\ Emitted("state:reset") # {}
    /\ theme = "dark"
    /\ browser.usable
    /\ themeKey \in DOMAIN browser.localStorage
    /\ images = EmptyMap

(***************************************************************************)
(* Properties of loading, checked under Spec.                              *)
(***************************************************************************)
\* the index of filename f in the metadata document, counted from 0
NaturalIndex(f) == CHOOSE i \in 0..(Len(Metadata) - 1) : Metadata[i + 1][1] = f

\* C14 (as claimed): when 'images:loaded' is emitted every image of the
\* metadata has its tile; before any gesture, the tile of an image with a
\* record is at the record's position and size, and the tile of an image
\* without one has its scaled size and, the order of the metadata being kept,
\* the grid position of its natural index.
C14_EveryImageHasItsTile ==
    \A e \in Emitted("images:loaded") :
        \A f \in Filenames :
            /\ f \in DOMAIN containers
            /\ gestures = 0 =>
                  LET el == containers[f]
                      scaled == calculateScaledSizes(Metadata)[NaturalIndex(f) + 1]
                  IN  IF f \in DOMAIN images
                      THEN /\ <<el.left, el.top>> = <<R(images[f].position[1]), R(images[f].position[2])>>
                           /\ <<el.width, el.height>> = <<R(images[f].size[1]), R(images[f].size[2])>>
                      ELSE /\ <<el.width, el.height>> = <<R(scaled[1]), R(scaled[2])>>
                           /\ e.hasSavedStates =>
                                 /\ el.index = NaturalIndex(f)
                                 /\ <<el.left, el.top>> =
                                       <<R(calculatePosition(scaled, el.index)[1]),
                                         R(calculatePosition(scaled, el.index)[2])>>

(***************************************************************************)
(* Properties of the placement rule, checked under SpecGrid.               *)
(***************************************************************************)
\* the boxes of the tiles at indexes i and j of positions and sizes are at
\* least gap apart on one axis
BoxesApart(i, j, gap) ==
    \/ positions[j][1] + sizes[j][1] + gap <= positions[i][1]
    \/ positions[i][1] + sizes[i][1] + gap <= positions[j][1]
    \/ positions[j][2] + sizes[j][2] + gap <= positions[i][2]
    \/ positions[i][2] + sizes[i][2] + gap <= positions[j][2]

\* C15 (as claimed): the boxes of the tiles that the grid rule has placed do
\* not intersect, whatever their sizes and the width of the canvas.
C15_GridPositionsDisjoint ==
    page = "grid" =>
        \A i, j \in DOMAIN positions : i # j => BoxesApart(i, j, 0)

C17_BusyControllerIgnoresPointerDown ==
    [][/\ (dragHandler.isDragging /\ PointerDownBody) =>
              /\ Emitted("drag:start")' = {}
              /\ dragHandler' = dragHandler
       /\ (resizeHandler.isResizing /\ PointerDownHandle) =>
              /\ Emitted("resize:start")' = {}
              /\ resizeHandler' = resizeHandler]_vars

\* C17 witness: a drag of a tile of the document is in progress, the tile
\* still where it started, and the last step emitted nothing: the step was a
\* pointer-down that the busy drag handler ignored (a start, a move, a
\* release and a load each emit an event)
C17_Witness ==
    /\ page = "running"
    /\ dragHandler.isDragging
    /\ ~resizeHandler.isResizing
    /\ emitted = << >>
    /\ dragHandler.currentContainer.kind = "attached"
    /\ Cardinality(DOMAIN containers) > 1
    /\ LET el == containers[dragHandler.currentContainer.file]
       IN  /\ el.left = R(dragHandler.initialPosition[1])
           /\ el.top = R(dragHandler.initialPosition[2])
           /\ checkOverlap(Cur, el.left, el.top, el.index) # "throws"

\* C18 (as claimed): no step leads to a state where a drag and a resize are
\* both in progress, and no step emits both 'drag:start' and 'resize:start'.
C18_NeverDragAndResize ==
    [][/\ ~(dragHandler'.isDragging /\ resizeHandler'.isResizing)
       /\ ~(Emitted("drag:start")' # {} /\ Emitted("resize:start")' # {})]_vars

\* the events of the last step that end a drag
DragEndings ==
    {i \in DOMAIN emitted : emitted[i].name \in {"drag:end", "drag:cancelled"}}

\* C19 (as claimed): a release while a drag is in progress emits exactly one
\* of 'drag:end' and 'drag:cancelled' and leaves the drag handler idle
\* (isDragging false, no current tile); a step taken while the drag handler
\* is idle emits no 'drag:move', 'drag:end' or 'drag:cancelled'.
C19_DragEndsOnRelease ==
    [][/\ (dragHandler.isDragging /\ PointerUp) =>
              /\ Cardinality(DragEndings') = 1
              /\ ~dragHandler'.isDragging
              /\ dragHandler'.currentContainer = NoContainer
       /\ ~dragHandler.isDragging =>
              /\ Emitted("drag:move")' = {}
              /\ DragEndings' = {}]_vars

\* C20 (as claimed): a release while a resize is in progress emits exactly
\* one 'resize:end' and leaves the resize handler idle, and the map then
\* holds, under the filename of the resized tile, a record with the size the
\* event carries and the position the tile is shown at.
C20_ResizeCommitsOnRelease ==
    [][(resizeHandler.isResizing /\ PointerUp) =>
          LET ref == resizeHandler.currentContainer
              f == ElementOf(Cur, ref).file
              tile == IF ref.kind = "attached" /\ f \in DOMAIN containers'
                      THEN containers'[f] ELSE ElementOf(Cur, ref)
          IN  /\ Cardinality({i \in DOMAIN emitted' : emitted'[i].name = "resize:end"}) = 1
              /\ ~resizeHandler'.isResizing
              /\ resizeHandler'.currentContainer = NoContainer
              /\ f \in DOMAIN images'
              /\ \A e \in Emitted("resize:end")' : images'[f].size = e.size
              /\ images'[f].position = Shown(tile).position]_vars

(***************************************************************************)
(* Properties of the event bus, checked under SpecBus and SpecOnce.        *)
(***************************************************************************)
\* the listeners that the emit called from outside invoked, in order
Invoked(B) ==
    LET top == SelectSeq(B.calls, LAMBDA c : c.depth = 0)
    IN  [i \in DOMAIN top |-> top[i].listener]

\* C21: the listeners that emit(event) invokes are the listeners of the event
\* when the emit begins, each once and in subscription order, whatever the
\* listeners subscribe and unsubscribe while it runs.
C21_EmitInvokesSnapshot ==
    [][\A event \in Events :
          (eventBus'.result \in {"returned", "threw"} /\ EmitStep(event)) =>
              Invoked(eventBus') = ListenersOf(eventBus, event)]_vars

\* C21 witness: an emit has invoked listeners of "e" that are not the
\* listeners "e" has after it, no onceWrapper among them: a listener
\* subscribed or unsubscribed another during the emit
C21_Witness ==
    /\ page = "bus"
    /\ eventBus.result = "returned"
    /\ Len(eventBus.calls) > 1
    /\ \A i \in DOMAIN eventBus.calls :
          /\ eventBus.calls[i].event = "e"
          /\ "wrapper" \notin DOMAIN eventBus.calls[i].listener.callback
    /\ Invoked(eventBus) # ListenersOf(eventBus, "e")

\* C22: an emit to listeners of which one throws still invokes every
\* listener of the snapshot, those before and those after the one that
\* throws, in order, and returns without throwing.
C22_ThrowingListenerIsIsolated ==
    [][\A event \in Events :
          (/\ eventBus'.result \in {"returned", "threw"}
           /\ \E i \in DOMAIN ListenersOf(eventBus, event) :
                  ListenersOf(eventBus, event)[i].callback.fn = "boom"
           /\ EmitStep(event)) =>
              /\ eventBus'.result = "returned"
              /\ Invoked(eventBus') = ListenersOf(eventBus, event)]_vars

\* C22 witness: an emit has returned after invoking a listener, then one
\* that throws, then another
C22_Witness ==
    /\ page = "bus"
    /\ eventBus.result = "returned"
    /\ Len(Invoked(eventBus)) = 3
    /\ Invoked(eventBus)[1].callback.fn = "f"
    /\ Invoked(eventBus)[2].callback.fn = "boom"
    /\ Invoked(eventBus)[3].callback.fn = "f"

\* C23: off(event, callback, context) removes the earliest listener of the
\* event whose callback and context are both the given ones and returns
\* true, or removes nothing and returns false when there is none; the other
\* listeners of the event keep their order and the listeners of the other
\* events are unchanged.  The function that on returned is this call of off.
C23_OffRemovesEarliestMatch ==
    [][\A s \in OffArgs :
          (eventBus'.result \in {"true", "false"} /\ OffStep(s[1], s[2], s[3])) =>
              LET before == ListenersOf(eventBus, s[1])
                  after == ListenersOf(eventBus', s[1])
                  matching == {i \in DOMAIN before :
                                  before[i] = [callback |-> s[2], context |-> s[3]]}
              IN  /\ \A other \in Events \ {s[1]} :
                         ListenersOf(eventBus', other) = ListenersOf(eventBus, other)
                  /\ IF matching = {}
                     THEN after = before /\ eventBus'.result = "false"
                     ELSE /\ eventBus'.result = "true"
                          /\ \E k \in matching :
                                /\ \A j \in matching : k <= j
                                /\ after = [i \in 1..(Len(before) - 1) |->
                                               IF i < k THEN before[i] ELSE before[i + 1]]]_vars

\* C23 witness: off has removed a listener and returned true, and "e" and
\* "x" each keep a listener
C23_Witness ==
    /\ page = "bus"
    /\ eventBus.result = "true"
    /\ eventBus.calls = << >>
    /\ Len(ListenersOf(eventBus, "x")) = 1
    /\ Len(ListenersOf(eventBus, "e")) = 1
    /\ ListenersOf(eventBus, "e")[1].callback = Fn("f")

\* C24 (as claimed): a onceWrapper is invoked once at most, and after its
\* invocation it is a listener no more.
C24_OnceInvokedOnce ==
    page = "bus" =>
        \A n \in DOMAIN eventBus.onceCalls :
            /\ eventBus.onceCalls[n] <= 1
            /\ eventBus.onceCalls[n] = 1 =>
                   \A event \in Events : \A i \in DOMAIN ListenersOf(eventBus, event) :
                       LET cb == ListenersOf(eventBus, event)[i].callback
                       IN  "wrapper" \in DOMAIN cb => cb.wrapper # n

(***************************************************************************)
(* Properties of the storage manager, checked under SpecStorage.           *)
(***************************************************************************)
\* C25: no call of get, set, remove, has, clear or keys throws, whether
\* localStorage was unusable at construction, throws on every access or has
\* no room left, and whatever the value; set returns a boolean.
C25_StorageCallsNeverThrow ==
    /\ returned.ret.ty # "thrown"
    /\ returned.op = "set" => returned.ret.ty = "boolean"

\* C25 witness: a set of an object over a localStorage that throws on every
\* access has returned.
C25_Witness ==
    /\ storageManager.isAvailable
    /\ browser.denied
    /\ returned.op = "set"
    /\ returned.value.ty = "object"
    /\ returned.ret = Bool(TRUE)

\* the write of set(c.key, c.value) fails: localStorage.setItem throws, for
\* want of room or for another reason
WriteFails(b, sm, c) ==
    /\ sm.isAvailable
    /\ c.value.ty # "circular"
    /\ b.denied \/ QuotaExceeded(b, c.key, c.value)

\* C26 (as claimed): when the write of set(k, v) fails, whether by quota or
\* by another error, v is not lost: get(k) returns v afterwards.
C26_FailedWriteKeepsValue ==
    [][\A c \in StorageCalls :
          (c.op = "set" /\ WriteFails(browser, storageManager, c) /\ StorageStep(c)) =>
              StorageGet(browser', storageManager', c.key, [ty |-> "null"]) = c.value]_vars

\* localStorage has worked for every call so far: it is usable, does not
\* throw and has had room for every value from the start
Working(b) == b.usable /\ ~b.denied /\ b.room >= 3

\* C27 (as claimed): over working persistent storage, every call of set,
\* get, remove, has and clear with string, number, boolean and object values
\* returns what the same call returns on a manager that runs on the
\* in-memory fallback; so get(k, d) after set(k, v) returns v in both.
C27_FallbackAndPersistentAgree ==
    (/\ Working(browser)
     /\ returned.op \in {"set", "get", "remove", "has", "clear"}
     /\ \A k \in DOMAIN twin.storageManager.fallbackStorage :
           twin.storageManager.fallbackStorage[k] # Circular)
        => returned.ret = twin.returned

(***************************************************************************)
(* Properties of the start of the application, checked under SpecStartup.  *)
(***************************************************************************)
\* C28 (as claimed): when the metadata document is missing, is no JSON, is
\* no array or is empty, the application never becomes initialized,
\* 'app:ready' is never emitted and the static error panel is shown.
C28_BadMetadataAbortsStartup ==
    app.failure \in MetadataFailures =>
        /\ ~app.isInitialized
        /\ Emitted("app:ready") = {}
        /\ app.errorPanel

\* what a step of the loading loop leaves: the loop went on from the image
\* it was at to its next delay or to its end, every image on the way has its
\* tile or an 'image:error' that names it, and at the end 'images:loaded'
\* is emitted
LoopWentOn ==
    LET from == IF loader # << >> THEN loader[1].i ELSE 0
        upto == IF loader' # << >> THEN loader'[1].i ELSE Len(Metadata)
        orders == IF loader' # << >> THEN {loader'[1].metadata}
                  ELSE IF loader # << >> THEN {loader[1].metadata}
                  ELSE Shuffles(Metadata)
    IN  /\ upto > from
        /\ loader' = << >> => Emitted("images:loaded")' # {}
        /\ \E metadata \in orders :
              \A j \in from..(upto - 1) :
                 LET f == metadata[j + 1][1]
                 IN  \/ f \in DOMAIN containers' /\ containers'[f].index = j
                     \/ \E e \in Emitted("image:error")' : e.filename = f /\ e.index = j

\* C29: when loading an image fails during progressive loading, an
\* 'image:error' that names it is emitted and the loop goes on with every
\* later image; a loop that waits in its delay leads to 'images:loaded'.
C29_FailedImageDoesNotStopLoading ==
    /\ [][(page' = "running" /\ (MetadataArrives \/ LoaderResume)) => LoopWentOn]_vars
    /\ (loader # << >>) ~> (Emitted("images:loaded") # {})

\* C29 witness: the first two images failed, each with its 'image:error',
\* the third has its tile and 'images:loaded' is emitted.
C29_Witness ==
    /\ \E e \in Emitted("image:error") : e.index = 0
    /\ \E e \in Emitted("image:error") : e.index = 1
    /\ \E f \in DOMAIN containers : containers[f].index = 2
    /\ Emitted("images:loaded") # {}

(***************************************************************************)
(* Properties of the link preview loader, checked under SpecPreview.       *)
(***************************************************************************)
\* C30 (as claimed): every call of fetchLinkPreview(url) ends, with a
\* preview that is in the cache under url, even when none of its requests
\* ever ends; a call for a url that is cached returns the cached preview
\* and issues no request.
C30_FetchLinkPreviewCompletes ==
    /\ [][\A url \in Urls :
            (url \in DOMAIN linkPreviewLoader.cache /\ FetchStep(url)) =>
                LET call == linkPreviewLoader'.calls[Len(linkPreviewLoader'.calls)]
                IN  /\ call.pc = "done"
                    /\ call.requests = 0
                    /\ call.preview = linkPreviewLoader.cache[url]]_vars
    /\ \A c \in 1..MaxCalls :
          (c \in DOMAIN linkPreviewLoader.calls) ~>
              (/\ c \in DOMAIN linkPreviewLoader.calls
               /\ linkPreviewLoader.calls[c].pc = "done"
               /\ linkPreviewLoader.calls[c].url \in DOMAIN linkPreviewLoader.cache
               /\ linkPreviewLoader.calls[c].preview \in
                      {FetchedPreview(linkPreviewLoader.calls[c].url),
                       generateFallbackPreview(linkPreviewLoader.calls[c].url)})

(***************************************************************************)
(* Properties of the constraints on sizes and positions, checked under     *)
(* Spec.                                                                   *)
(***************************************************************************)
\* C31 (as claimed): with preserveAspectRatio on, whatever the size the
\* resize started from, the width and the height that applySizeConstraints
\* returns in a resize update are both within [minSize, maxSize].  Without
\* grid snapping the size of 'resize:move' is what it returned.
C31_ConstrainedSizeWithinBounds ==
    (config.preserveAspectRatio /\ ~config.snapToGrid) =>
        \A e \in Emitted("resize:move") :
            \A i \in 1..2 : RLe(R(minSize), e.size[i]) /\ RLe(e.size[i], R(maxSize))

\* the position p is within the canvas for a tile of the given width: at
\* boundaryPadding or more from the left and from the top, and at
\* boundaryPadding or more from the right where the canvas has the room
WithinCanvas(p, width) ==
    LET maxX == RSub(RSub(R(ContainerWidth), width), R(boundaryPadding))
    IN  /\ RLe(R(boundaryPadding), p[1])
        /\ RLe(R(boundaryPadding), p[2])
        /\ RLe(R(boundaryPadding), maxX) => RLe(p[1], maxX)

\* C32: for the tile of the document that is dragged, the position of every
\* 'drag:move' and the position every 'drag:end' commits are within the
\* canvas for the tile's width; the y of a 'drag:move' is the pointer's,
\* whatever it is, unless that is less than boundaryPadding.
C32_DragStaysWithinCanvas ==
    [][dragHandler.currentContainer.kind = "attached" =>
          LET el == containers[dragHandler.currentContainer.file]
          IN  /\ \A e \in Emitted("drag:move")' :
                    /\ WithinCanvas(e.position, el.width)
                    /\ \E d \in DragDeltas :
                          e.position[2] = RMax(R(boundaryPadding),
                                               R(dragHandler.initialPosition[2] + d[2]))
              /\ \A e \in Emitted("drag:end")' :
                    WithinCanvas(<<R(e.position[1]), R(e.position[2])>>, el.width)]_vars

\* C32 witness: a 'drag:move' of a tile that the right edge of the canvas
\* stopped short of where the pointer went.
C32_Witness ==
    /\ dragHandler.currentContainer.kind = "attached"
    /\ resizeHandler.currentContainer = NoContainer
    /\ \E e \in Emitted("drag:move") :
          /\ e.position[1] = RSub(RSub(R(ContainerWidth),
                                       containers[dragHandler.currentContainer.file].width),
                                  R(boundaryPadding))
          /\ RLt(e.position[1], R(dragHandler.initialPosition[1] + 120))
          /\ RLt(R(boundaryPadding), e.position[1])

\* the tile el, put at position p, has its buffered box intersect that of
\* another tile of the document: the horizontal and the vertical gap are
\* both less than minSpacing
NearAnother(el, p) ==
    \E g \in DOMAIN containers :
        /\ containers[g].index # el.index
        /\ ~Apart([el EXCEPT !.left = p[1], !.top = p[2]], containers[g])

\* C33 (as claimed): for the tile that is dragged, no resize being in
\* progress, wouldOverlap is true exactly when the tile's buffered box
\* intersects another tile's, the flag of every 'drag:move' is that for the
\* position it carries, and a release cancels the drag exactly when it holds
\* where the tile is and commits it otherwise.
C33_OverlapIsBufferedIntersection ==
    [][(/\ dragHandler.isDragging
        /\ dragHandler.currentContainer.kind = "attached"
        /\ ~resizeHandler.isResizing) =>
          LET el == containers[dragHandler.currentContainer.file]
              final == <<R(ParseInt(el.left)), R(ParseInt(el.top))>>
          IN  /\ wouldOverlap(Cur, final[1], final[2], el.width, el.height, el.index) =
                     (IF NearAnother(el, final) THEN "true" ELSE "false")
              /\ \A e \in Emitted("drag:move")' :
                     e.wouldOverlap = NearAnother(el, e.position)
              /\ PointerUp =>
                     /\ NearAnother(el, final) => Emitted("drag:cancelled")' # {}
                     /\ ~NearAnother(el, final) => Emitted("drag:end")' # {}]_vars


(***************************************************************************)
(* Properties of the scaling rule, checked under SpecGrid.                 *)
(***************************************************************************)
\* the scale of an image w by h: an eighth, a quarter or a half, by the ratio
\* of its area to the goal area
ScaleDivisor(w, h) ==
    LET ratio == Rat(w * h, goalPixels)
    IN  IF RLt(R(16), ratio) THEN 8 ELSE IF RLt(R(4), ratio) THEN 4 ELSE 2

\* the display size of an image w by h with the scaling and the clamp done
\* in exact arithmetic
ExactDisplaySize(w, h, availableWidth) ==
    LET width == Rat(w, ScaleDivisor(w, h))
        height == Rat(h, ScaleDivisor(w, h))
    IN  IF RLt(R(availableWidth), RAdd(width, R(10)))
        THEN <<R(availableWidth - 10),
               RMul(height, RDiv(R(availableWidth - 10), Rat(w, 2)))>>
        ELSE <<width, height>>

\* the same with every scaled dimension rounded down to a whole pixel
WholeDisplaySize(w, h, availableWidth) ==
    LET width == RFloor(Rat(w, ScaleDivisor(w, h)))
        height == RFloor(Rat(h, ScaleDivisor(w, h)))
    IN  IF width + 10 > availableWidth
        THEN <<availableWidth - 10,
               RFloor(RMul(R(height), RDiv(R(availableWidth - 10), Rat(w, 2))))>>
        ELSE <<width, height>>

\* C34 (as claimed): the display size of every image of the metadata is its
\* size scaled by 1/8 where w*h/150000 > 16, by 1/4 where it is > 4 and by 1/2
\* otherwise, and, where that width + 10 exceeds the available width, the
\* available width - 10 with the height multiplied by (new width)/(w/2).
C34_DisplaySizeIsExactScale ==
    [][\A metadata \in GridMetadata : PlaceMetadataStep(metadata) =>
          \A k \in 1..Len(metadata) :
              <<R(sizes'[k][1]), R(sizes'[k][2])>> =
                  ExactDisplaySize(metadata[k][2][1], metadata[k][2][2], canvas)]_vars

\* C34 (amended): the display size of every image of the metadata is that
\* function of (w, h, available width) with each scaled dimension rounded
\* down to a whole pixel: the scale is 1/8 where w*h/150000 > 16, 1/4 where it
\* is > 4 and 1/2 otherwise; where the rounded width + 10 exceeds the
\* available width, the width is the available width - 10 and the height is
\* the rounded height times (new width)/(w/2), rounded down.
C34_DisplaySizeIsWholePixelScale ==
    [][\A metadata \in GridMetadata : PlaceMetadataStep(metadata) =>
          \A k \in 1..Len(metadata) :
              sizes'[k] = WholeDisplaySize(metadata[k][2][1], metadata[k][2][2], canvas)]_vars

\* a clamped image and one scaled by an eighth whose sides are not multiples
\* of eight
C34_Witness ==
    /\ page = "grid"
    /\ canvas = 400
    /\ sizes = << <<390, 365>>, <<250, 200>> >>
    /\ Len(positions) = 2


(***************************************************************************)
(* Property of the quota handling, checked under SpecStorage.              *)
(***************************************************************************)
\* the call c is a set whose first localStorage.setItem exceeds the quota
HitsQuota(c) ==
    /\ c.op = "set"
    /\ storageManager.isAvailable /\ ~browser.denied
    /\ c.value.ty # "circular"
    /\ QuotaExceeded(browser, c.key, c.value)

RestoredFrom(el, record) ==
    /\ el.left = R(record.position[1]) /\ el.top = R(record.position[2])
    /\ el.width = R(record.size[1]) /\ el.height = R(record.size[2])

\* the tile el is where the placement rule puts a tile of its size and index
PlacedByRule(el) ==
    <<el.left, el.top>> =
        LET p == calculatePosition(<<el.width[1], el.height[1]>>, el.index)
        IN  <<R(p[1]), R(p[2])>>

\* C36: a step that emits 'positions:reset' leaves the state store without
\* records, and no tile that the step's reload has created is restored from
\* a record that the store held before the step; a tile created by any other
\* step (a loading loop that goes on, after the reset too) is restored from
\* the record that the store holds for it at that step, or placed by the rule
\* where the store holds none.  So no tile created after a reset is restored
\* from a record saved before it.
C36_ResetClearsBeforeReload ==
    [][/\ Emitted("positions:reset")' # {} =>
              /\ images' = EmptyMap
              /\ \A f \in DOMAIN containers' \cap DOMAIN images :
                    ~RestoredFrom(containers'[f], images[f])
       /\ Emitted("positions:reset")' = {} =>
              \A f \in DOMAIN containers' \ DOMAIN containers :
                  IF f \in DOMAIN images
                  THEN RestoredFrom(containers'[f], images[f])
                  ELSE PlacedByRule(containers'[f])]_vars

\* a reset while a loading loop waits: the records are gone, and the loop is
\* still to go on
C36_Witness ==
    /\ page = "running"
    /\ Emitted("positions:reset") # {}
    /\ images = EmptyMap
    /\ loader # << >>


(***************************************************************************)
(* Property of the image manager's arrays, checked under Spec.             *)
(***************************************************************************)
\* C37: positions holds no more entries than the metadata has images, and
\* for every index i below positions.length both positions[i] and sizes[i]
\* are defined and are the committed position and the size of the tile whose
\* index is i (a tile that no gesture holds is at positions[i]).
C37_PositionsAndSizesDescribeTiles ==
    /\ Len(positions) <= Len(Metadata)
    /\ \A i \in 0..(Len(positions) - 1) :
          /\ IsDefined(At(positions, i)) /\ IsDefined(At(sizes, i))
          /\ \E f \in DOMAIN containers : containers[f].index = i
          /\ \A f \in DOMAIN containers :
                (/\ containers[f].index = i
                 /\ ~dragHandler.isDragging /\ ~resizeHandler.isResizing) =>
                    /\ At(positions, i) = <<ParseInt(containers[f].left),
                                            ParseInt(containers[f].top)>>
                    /\ <<R(At(sizes, i)[1]), R(At(sizes, i)[2])>> =
                           <<containers[f].width, containers[f].height>>


(***************************************************************************)
(* Properties of the components, checked under SpecToggle and SpecDestroy. *)
(***************************************************************************)
\* the events of that name that the last step emitted
CountOf(name) == Len(SelectSeq(emitted, LAMBDA e : e.name = name))

\* C38: whatever calls of ThemeToggle.toggle and setTheme, 'theme:set'
\* events and calls of StateManager.setTheme there have been, the last call
\* has returned with no emit left to make, ThemeToggle's current theme is
\* the state manager's, and a toggle emits exactly one 'theme:changed' and
\* exactly one 'theme:updated'.
C38_ThemePropagationSettles ==
    /\ [](/\ eventBus.result # "unfinished"
          /\ components.themeToggle.currentTheme = Str(theme))
    /\ [][ToggleCall =>
             /\ CountOf("theme:changed")' = 1
             /\ CountOf("theme:updated")' = 1]_vars

\* a toggle has gone to the state manager and come back to the toggle
C38_Witness ==
    /\ page = "toggle"
    /\ theme = "dark"
    /\ components.themeToggle.currentTheme = Str("dark")
    /\ CountOf("theme:changed") = 1 /\ CountOf("theme:updated") = 1
    /\ \E i \in DOMAIN eventBus.calls :
          /\ eventBus.calls[i].event = "theme:updated"
          /\ eventBus.calls[i].depth = 1

\* the component that a listener's callback is bound to is still rendered
OfLiveComponent(listener) ==
    ("boundTo" \in DOMAIN listener.callback /\ listener.callback.boundTo \in DOMAIN components)
        => components[listener.callback.boundTo].element

\* C39: no listener on the bus is a handler of a component that has been
\* destroyed, and the last emit has called no handler of one.
C39_DestroyedHandlersUnsubscribed ==
    page = "components" =>
        /\ \A event \in DOMAIN eventBus.events :
              \A i \in DOMAIN eventBus.events[event] :
                  OfLiveComponent(eventBus.events[event][i])
        /\ \A i \in DOMAIN eventBus.calls : OfLiveComponent(eventBus.calls[i].listener)

====
